---- MODULE Spec2Model ----
(***************************************************************************)
(* Model of lib/minio_ext/api.go: the S3 client's request construction     *)
(* (newRequest, GenUploadPartSignedUrl), bucket-region resolution and its  *)
(* cache (getBucketLocation), the redirect hook (redirectHeaders) and the  *)
(* retry loop (executeMethod).                                             *)
(*                                                                         *)
(* One client is constructed in Init; calls of executeMethod and           *)
(* GenUploadPartSignedUrl follow one another on it.  The server, the       *)
(* transport and the credential provider are the environment: their        *)
(* answers are drawn from the small sets below.  The last specifications   *)
(* run two callers on the client at once, each on its own goroutine.       *)
(***************************************************************************)
EXTENDS Integers, Sequences, FiniteSets, TLC

VARIABLES
    endpointURL,        \* Client.endpointURL: the host of the tracked endpoint
    region,             \* Client.region
    credsType,          \* signer type the credential provider reports
    overrideSignerType, \* Client.overrideSignerType
    secure,             \* Client.secure
    lookup,             \* Client.lookup
    s3AccelerateEndpoint, \* Client.s3AccelerateEndpoint
    bucketLocCache,     \* Client.bucketLocCache.items
    op,                 \* the call in progress: "none", "exec", "presign"
    args,               \* the arguments GenUploadPartSignedUrl was called with
    pc,                 \* its position
    metadata,           \* requestMetadata of the call
    ctxDone,            \* the caller's context has been cancelled
    isRetryable,        \* executeMethod: isRetryable
    reqRetry,           \* executeMethod: reqRetry
    attempt,            \* attempts handed out by the retry timer so far
    seeks,              \* Seek(0, 0) calls on the body in this call
    bodyPos,            \* read offset of the body: 0 or 1 (somewhere past 0)
    location,           \* newRequest: location
    req,                \* the request being sent
    ireq,               \* via[0]: the first request of the chain being sent
    via,                \* requests of the chain so far, req included
    res,                \* executeMethod: res
    err,                \* executeMethod: err (the function's, not the shadow)
    ev,                 \* what the last step did
    firstLoc,           \* per bucket: what its first network resolution stored,
                        \* and whether a region correction has replaced it
    endpointScheme,     \* Client.endpointURL.Scheme
    calls,              \* per concurrent caller: the locals of its call
    mu,                 \* bucketLocCache's RWMutex: who holds it
    writes              \* the writes to bucketLocCache.items by the callers

vars == << endpointURL, region, credsType, overrideSignerType, secure,
           lookup, s3AccelerateEndpoint, bucketLocCache,
           op, args, pc, metadata, ctxDone, isRetryable, reqRetry, attempt, seeks,
           bodyPos, location, req, ireq, via, res, err, ev, firstLoc,
           endpointScheme, calls, mu, writes >>

configVars == << region, credsType, overrideSignerType, secure, lookup,
                s3AccelerateEndpoint >>

\* What only concurrent callers touch, and the scheme: the redirects of a
\* caller that runs alone keep the scheme of the endpoint.
sharedVars == << endpointScheme, calls, mu, writes >>

\* The locals of the call that runs alone.
oneCallVars == << op, args, pc, metadata, ctxDone, isRetryable, reqRetry, attempt,
                 seeks, bodyPos, location, req, ireq, via, res, err, ev,
                 firstLoc >>

----------------------------------------------------------------------------
(* Bounds of the model. *)

\* Attempt budget of the retry timer (MaxRetry of the package).
MaxRetry == 2

\* Redirects a server sends in one chain at most, where the chains are
\* followed to their end.
MaxHops == 6

\* Redirects a server sends in one chain at most, elsewhere.
FewHops == 1

----------------------------------------------------------------------------
(* Values. *)

Hosts == {"play.min.io", "s3.amazonaws.com",
          "s3.dualstack.eu-west-1.amazonaws.com", "storage.googleapis.com"}

BucketNames == {"", "bkt", "Bad_Bucket"}

\* A valid bucket name with a period in it.
DottedBucketNames == {"my.bkt"}

RegionHints == {"", "eu-west-1", "us-west-2"}

NoEntry == "<none>"

NoErr == [kind |-> "nil", code |-> ""]

NoRes == [status |-> 0, code |-> "", region |-> "", drained |-> FALSE,
          bodyAt |-> "start"]

NoAuth == [signer |-> "none", region |-> "", host |-> ""]

\* url.Values with no key.
NoQuery == [partNumber |-> "", uploadId |-> ""]

NoReq == [Host |-> "", url |-> "", path |-> "", query |-> NoQuery,
          sha256 |-> "", auth |-> NoAuth, ctx |-> FALSE, kind |-> "none"]

\* The values of the X-Amz-Content-Sha256 header the file sets by itself.
unsignedPayload == "UNSIGNED-PAYLOAD"

emptySHA256Hex == "e3b0c44298fc1c14"

NoArgs == [uploadID |-> "", partNumber |-> 0, size |-> 0, expiresMs |-> 0]

NoMetadata == [method |-> "", bucketName |-> "", objectName |-> "",
               queryValues |-> NoQuery, copySource |-> FALSE,
               contentSHA256Hex |-> "",
               bucketLocation |-> "", contentBody |-> "nil",
               presignURL |-> FALSE, expires |-> 0]

NoEv == [type |-> "init"]

\* The goroutines that call the client at once.
Callers == {"A", "B"}

\* getEndpointURL: the scheme New gives the endpoint URL.
SchemeOf(isSecure) == IF isSecure THEN "https" ELSE "http"

\* An answer to a bucket location request that has not come.
NoLocResp == [status |-> 0, code |-> "", region |-> "", lc |-> "", xmlOK |-> TRUE]

\* A caller that has not called: pc, the arguments, getBucketLocation's
\* location and ok, the answer it got, makeTargetURL's host and scheme, the
\* request it built, the requests of its chain, the URL of the redirect its
\* hook is called for and the fields of it the hook has copied, what the call
\* returned, and the endpoint as it was when the call began.
NoCall == [pc |-> "idle", bucketName |-> "", location |-> "", ok |-> FALSE,
           resp |-> NoLocResp, host |-> "", scheme |-> "", req |-> NoReq,
           via |-> 0, toHost |-> "", toScheme |-> "", wrote |-> {},
           ret |-> "", err |-> NoErr, entryHost |-> "", entryScheme |-> ""]

\* sync.RWMutex with no holder.
Unlocked == [readers |-> {}, writer |-> "none"]

\* No caller has called yet.
NoCallers ==
    /\ endpointScheme = SchemeOf(secure)
    /\ calls = [p \in Callers |-> NoCall]
    /\ mu = Unlocked
    /\ writes = << >>

NoFirst == [region |-> NoEntry, hint |-> FALSE, replaced |-> FALSE]

----------------------------------------------------------------------------
(* The s3utils and credentials helpers the file calls, on the values above. *)

\* s3utils.GetRegionFromURL: the region an Amazon host name carries, else "".
GetRegionFromURL(u) ==
    IF u = "s3.dualstack.eu-west-1.amazonaws.com" THEN "eu-west-1" ELSE ""

IsAmazonEndpoint(u) ==
    u \in {"s3.amazonaws.com", "s3.dualstack.eu-west-1.amazonaws.com"}

IsGoogleEndpoint(u) == u = "storage.googleapis.com"

\* s3utils.CheckValidBucketName: "" and names outside the S3 rules are refused.
CheckValidBucketName(bucketName) == bucketName \in {"bkt", "my.bkt"}

\* A bucket name with a period in it (strings.Contains(bucketName, ".")).
ContainsDot(bucketName) == bucketName = "my.bkt"

\* s3utils.CheckValidObjectName: only the empty name is refused.
CheckValidObjectName(objectName) == objectName # ""

\* s3utils.IsVirtualHostSupported: Amazon and Google endpoints, DNS-style
\* names; over https none with a period, which the certificate does not cover.
IsVirtualHostSupported(u, bucketName) ==
    /\ ~(secure /\ ContainsDot(bucketName))
    /\ IsAmazonEndpoint(u) \/ IsGoogleEndpoint(u)
    /\ CheckValidBucketName(bucketName)

IsV2(signerType) == signerType = "V2"

\* credentials.SignatureType.IsV4 holds of SignatureV4 and SignatureDefault.
IsV4(signerType) == signerType \in {"V4", "Default"}

IsAnonymous(signerType) == signerType = "Anonymous"

\* The signer type newRequest, getBucketLocationRequest and redirectHeaders
\* all compute from the provider's value and the client's override.
EffectiveSignerType ==
    IF credsType = "Anonymous" THEN "Anonymous"
    ELSE IF overrideSignerType # "Default" THEN overrideSignerType
    ELSE credsType

\* The list of success statuses without 206 Partial Content.
successStatusNoPartial == {200, 204}

successStatus == {200, 204, 206}

IsSuccessStatus(status) == status \in successStatus

\* ToErrorResponse(e).Code: the code of an ErrorResponse, "" of any other error.
ToErrorResponseCode(e) == IF e.kind = "s3" THEN e.code ELSE ""

S3Error(code) == [kind |-> "s3", code |-> code]

PlainError(kind) == [kind |-> kind, code |-> ""]

\* retry.go, isS3CodeRetryable.
isS3CodeRetryable(code) == code \in {"InternalError", "SlowDown"}

\* retry.go, isHTTPStatusRetryable.
isHTTPStatusRetryable(status) == status \in {429, 500, 502, 503}

\* retry.go, isHTTPReqErrorRetryable: connection closed, timeout, reset.
isHTTPReqErrorRetryable(e) == e.kind \in {"closed", "timeout", "reset"}

getDefaultLocation(u, regionOverride) ==
    IF regionOverride # "" THEN regionOverride
    ELSE IF GetRegionFromURL(u) = "" THEN "us-east-1"
    ELSE GetRegionFromURL(u)

getS3Endpoint(bucketLocation) ==
    IF bucketLocation \in {"us-east-1", "eu-west-1", "us-west-2"}
    THEN "s3.dualstack." \o bucketLocation \o ".amazonaws.com"
    ELSE "s3.dualstack.us-east-1.amazonaws.com"

----------------------------------------------------------------------------
(* Building a request. *)

\* s3utils.IsAmazonFIPSEndpoint.
IsAmazonFIPSEndpoint(u) == u = "s3-fips-us-gov-west-1.amazonaws.com"

\* A decision that leaves the configured lookup style out.
isVirtualHostStyleRequestAuto(u, bucketName) ==
    IF bucketName = "" THEN FALSE
    ELSE IsVirtualHostSupported(u, bucketName)

isVirtualHostStyleRequest(u, bucketName) ==
    IF bucketName = "" THEN FALSE
    ELSE IF lookup = "DNS" THEN TRUE
    ELSE IF lookup = "Path" THEN FALSE
    ELSE IsVirtualHostSupported(u, bucketName)

\* makeTargetURL without the check of the bucket name for a period.
makeTargetURLAnyName(bucketName, objectName, bucketLocation, isVirtualHostStyle) ==
    LET amazon == IsAmazonEndpoint(endpointURL)
        accel  == amazon /\ s3AccelerateEndpoint # "" /\ bucketName # ""
        host   == IF accel THEN s3AccelerateEndpoint
                  ELSE IF amazon /\ ~IsAmazonFIPSEndpoint(endpointURL)
                       THEN getS3Endpoint(bucketLocation)
                  ELSE endpointURL
    IN  [err  |-> NoErr,
         host |-> IF bucketName # "" /\ isVirtualHostStyle
                  THEN bucketName \o "." \o host
                  ELSE host,
         path |-> IF bucketName = "" THEN "/"
                  ELSE IF isVirtualHostStyle THEN "/" \o objectName
                  ELSE "/" \o bucketName \o "/" \o objectName]

\* makeTargetURL: the error, or the host and the path of the URL it makes.
makeTargetURL(bucketName, objectName, bucketLocation, isVirtualHostStyle) ==
    LET amazon == IsAmazonEndpoint(endpointURL)
        accel  == amazon /\ s3AccelerateEndpoint # "" /\ bucketName # ""
        host   == IF accel THEN s3AccelerateEndpoint
                  ELSE IF amazon /\ ~IsAmazonFIPSEndpoint(endpointURL)
                       THEN getS3Endpoint(bucketLocation)
                  ELSE endpointURL
    IN  IF accel /\ ContainsDot(bucketName)
        THEN [err |-> S3Error("InvalidArgument"), host |-> "", path |-> ""]
        ELSE [err  |-> NoErr,
              host |-> IF bucketName # "" /\ isVirtualHostStyle
                       THEN bucketName \o "." \o host
                       ELSE host,
              path |-> IF bucketName = "" THEN "/"
                       ELSE IF isVirtualHostStyle THEN "/" \o objectName
                       ELSE "/" \o bucketName \o "/" \o objectName]

\* The Authorization header (or, presigned, the query signature) a signer makes.
Signed(signer, signRegion, host) ==
    [signer |-> signer, region |-> signRegion, host |-> host]

\* getBucketLocation without the look into the cache.
getBucketLocationUncached(bucketName) ==
    IF ~CheckValidBucketName(bucketName)
    THEN [src |-> "invalid", location |-> "", err |-> PlainError("bucketName")]
    ELSE IF region # ""
    THEN [src |-> "fixed", location |-> region, err |-> NoErr]
    ELSE [src |-> "network", location |-> "", err |-> NoErr]

\* getBucketLocation up to its network call: the bucket-name check, the fixed
\* region, the cache.
getBucketLocationLocal(bucketName) ==
    IF ~CheckValidBucketName(bucketName)
    THEN [src |-> "invalid", location |-> "", err |-> PlainError("bucketName")]
    ELSE IF region # ""
    THEN [src |-> "fixed", location |-> region, err |-> NoErr]
    ELSE IF bucketLocCache[bucketName] # NoEntry
    THEN [src |-> "cache", location |-> bucketLocCache[bucketName], err |-> NoErr]
    ELSE [src |-> "network", location |-> "", err |-> NoErr]

\* A newRequest that asks getBucketLocation before it looks at the override.
ResolveLocationBucketFirst(md) ==
    IF md.bucketName # ""
    THEN getBucketLocationLocal(md.bucketName)
    ELSE IF md.bucketLocation # ""
    THEN [src |-> "override", location |-> md.bucketLocation, err |-> NoErr]
    ELSE [src |-> "default", location |-> getDefaultLocation(endpointURL, region),
          err |-> NoErr]

\* newRequest, lines 774-786: where the region comes from.
ResolveLocation(md) ==
    IF md.bucketLocation # ""
    THEN [src |-> "override", location |-> md.bucketLocation, err |-> NoErr]
    ELSE IF md.bucketName # ""
    THEN getBucketLocationLocal(md.bucketName)
    ELSE [src |-> "default", location |-> getDefaultLocation(endpointURL, region),
          err |-> NoErr]

\* getBucketLocationRequest: always path style, signed for us-east-1.
getBucketLocationRequest(bucketName, credsOK) ==
    IF ~credsOK THEN [err |-> PlainError("credentials"), req |-> NoReq]
    ELSE [err |-> NoErr,
          req |-> [Host |-> endpointURL, url |-> endpointURL,
                   path |-> "/" \o bucketName \o "/", query |-> NoQuery,
                   sha256 |-> IF IsAnonymous(EffectiveSignerType)
                                 \/ IsV2(EffectiveSignerType) THEN ""
                              ELSE IF secure THEN unsignedPayload
                              ELSE emptySHA256Hex,
                   ctx |-> FALSE, kind |-> "location",
                   auth |-> IF IsAnonymous(EffectiveSignerType) THEN NoAuth
                            ELSE IF IsV2(EffectiveSignerType)
                            THEN Signed("V2", "", endpointURL)
                            ELSE Signed("V4", "us-east-1", endpointURL)]]

\* A streaming case that does not look at the X-Amz-Copy-Source header.
UsesStreamingSignatureForCopy(md) ==
    md.objectName # "" /\ md.method = "PUT" /\ ~secure

\* newRequest, line 885: the case of the streaming signature.
UsesStreamingSignature(md) ==
    md.objectName # "" /\ md.method = "PUT" /\ ~md.copySource /\ ~secure

\* newRequest, lines 783-905: from the region returned by getBucketLocation on.
FinishNewRequest(md, bucketLoc, credsOK) ==
    LET loc == IF bucketLoc = "" THEN getDefaultLocation(endpointURL, region)
               ELSE bucketLoc
        isMakeBucket == md.objectName = "" /\ md.method = "PUT"
                        /\ md.queryValues = NoQuery
        isVirtualHost ==
            isVirtualHostStyleRequest(endpointURL, md.bucketName) /\ ~isMakeBucket
        target == makeTargetURL(md.bucketName, md.objectName, loc, isVirtualHost)
        signerType == EffectiveSignerType
        plain == [Host |-> target.host, url |-> target.host,
                  path |-> target.path, query |-> md.queryValues,
                  sha256 |-> "", ctx |-> FALSE, kind |-> "request",
                  auth |-> NoAuth]
    IN  IF target.err # NoErr
        THEN [err |-> target.err, req |-> NoReq, location |-> loc]
        ELSE IF ~credsOK
        THEN [err |-> PlainError("credentials"), req |-> NoReq, location |-> loc]
        ELSE IF md.expires # 0 /\ md.presignURL
        THEN IF IsAnonymous(signerType)
             THEN [err |-> S3Error("InvalidArgument"), req |-> NoReq,
                   location |-> loc]
             ELSE [err |-> NoErr, location |-> loc,
                   req |-> [plain EXCEPT
                       !.kind = "presigned",
                       !.auth = IF IsV2(signerType)
                                THEN Signed("PreSignV2", "", target.host)
                                ELSE IF IsV4(signerType)
                                THEN Signed("PreSignV4", loc, target.host)
                                ELSE NoAuth]]
        ELSE IF IsAnonymous(signerType)
        THEN [err |-> NoErr, req |-> plain, location |-> loc]
        ELSE [err |-> NoErr, location |-> loc,
              req |-> IF IsV2(signerType)
                      THEN [plain EXCEPT !.auth = Signed("V2", "", target.host)]
                      ELSE IF UsesStreamingSignature(md)
                      THEN [plain EXCEPT
                               !.auth = Signed("StreamingV4", loc, target.host)]
                      ELSE [plain EXCEPT
                               !.sha256 = IF md.contentSHA256Hex # ""
                                          THEN md.contentSHA256Hex
                                          ELSE unsignedPayload,
                               !.auth = Signed("V4", loc, target.host)]]

----------------------------------------------------------------------------
(* Bucket location responses and the redirect hook. *)

\* A normalization that leaves the legacy token EU as it is.
NormalizeLocationKeepEU(locationConstraint) ==
    IF locationConstraint = "" THEN "us-east-1" ELSE locationConstraint

\* processBucketLocationResponse, lines 629-644: the location of a decoded
\* location constraint.
NormalizeLocation(locationConstraint) ==
    LET loc == IF locationConstraint = "" THEN "us-east-1"
               ELSE locationConstraint
    IN  IF loc = "EU" THEN "eu-west-1" ELSE loc

\* A response handler that takes every non-success answer for a region hint.
processBucketLocationResponseAllHints(resp) ==
    IF resp.status # 200
    THEN [location |-> IF resp.region = "" THEN "us-east-1" ELSE resp.region,
          err |-> NoErr]
    ELSE IF ~resp.xmlOK
    THEN [location |-> "", err |-> PlainError("xml")]
    ELSE [location |-> NormalizeLocation(resp.lc), err |-> NoErr]

\* processBucketLocationResponse without the us-east-1 default for a region
\* hint that is empty.
processBucketLocationResponseRawHint(resp) ==
    IF resp.status # 200
    THEN IF resp.code \in {"AuthorizationHeaderMalformed", "InvalidRegion",
                           "AccessDenied"}
         THEN [location |-> resp.region, err |-> NoErr]
         ELSE [location |-> "", err |-> S3Error(resp.code)]
    ELSE IF ~resp.xmlOK
    THEN [location |-> "", err |-> PlainError("xml")]
    ELSE [location |-> NormalizeLocation(resp.lc), err |-> NoErr]

\* processBucketLocationResponse: the location, or the error.
processBucketLocationResponse(resp) ==
    IF resp.status # 200
    THEN IF resp.code \in {"AuthorizationHeaderMalformed", "InvalidRegion",
                           "AccessDenied"}
         THEN [location |-> IF resp.region = "" THEN "us-east-1" ELSE resp.region,
               err |-> NoErr]
         ELSE [location |-> "", err |-> S3Error(resp.code)]
    ELSE IF ~resp.xmlOK
    THEN [location |-> "", err |-> PlainError("xml")]
    ELSE [location |-> NormalizeLocation(resp.lc), err |-> NoErr]

\* A hop limit that lets the fifth redirect pass.
StoppedAfterSixRedirects(viaLen) == viaLen > 5

\* redirectHeaders, line 238: the hop limit, on len(via).
StoppedAfterRedirects(viaLen) == viaLen >= 5

\* s3signer signs the Host field of a request, or its URL's host when empty.
HostAddr(r) == IF r.Host # "" THEN r.Host ELSE r.url

\* The switch without its V2 case: a V2 request goes on as it is.
ReAuthenticateNoV2Case(signerType, r, u) ==
    IF IsV4(signerType)
    THEN [err  |-> NoErr,
          auth |-> Signed("V4",
                          getDefaultLocation(u, IF region = ""
                                                THEN GetRegionFromURL(u)
                                                ELSE region),
                          HostAddr(r))]
    ELSE [err |-> NoErr, auth |-> r.auth]

\* The switch signing for the endpoint URL as it was before the redirect.
ReAuthenticateOldEndpoint(signerType, r, u) ==
    IF IsV2(signerType)
    THEN [err |-> PlainError("redirectV2"), auth |-> r.auth]
    ELSE IF IsV4(signerType)
    THEN [err  |-> NoErr,
          auth |-> Signed("V4",
                          getDefaultLocation(endpointURL,
                                             IF region = ""
                                             THEN GetRegionFromURL(endpointURL)
                                             ELSE region),
                          HostAddr(r))]
    ELSE [err |-> NoErr, auth |-> r.auth]

\* redirectHeaders, lines 284-292: the switch on the signer type when the
\* request is to be authenticated again, u being the endpoint URL by then.
ReAuthenticate(signerType, r, u) ==
    IF IsV2(signerType)
    THEN [err |-> PlainError("redirectV2"), auth |-> r.auth]
    ELSE IF IsV4(signerType)
    THEN [err  |-> NoErr,
          auth |-> Signed("V4",
                          getDefaultLocation(u, IF region = ""
                                                THEN GetRegionFromURL(u)
                                                ELSE region),
                          HostAddr(r))]
    ELSE [err |-> NoErr, auth |-> r.auth]

\* A hook that moves the endpoint URL only when it returns no error.
redirectHeadersEndpointLast(r, viaLen, last, credsOK) ==
    IF StoppedAfterRedirects(viaLen)
    THEN [err |-> PlainError("redirects"), req |-> r, endpoint |-> endpointURL]
    ELSE IF viaLen = 0
    THEN [err |-> NoErr, req |-> r, endpoint |-> endpointURL]
    ELSE
    LET reAuth == last.auth # NoAuth /\ r.Host # last.Host
        copied == IF last.auth # NoAuth /\ r.Host = last.Host /\ r.auth = NoAuth
                  THEN [r EXCEPT !.auth = last.auth]
                  ELSE r
        again  == ReAuthenticate(EffectiveSignerType, copied, r.url)
    IN  IF ~credsOK
        THEN [err |-> PlainError("credentials"), req |-> copied,
              endpoint |-> endpointURL]
        ELSE IF reAuth
        THEN [err |-> again.err, req |-> [copied EXCEPT !.auth = again.auth],
              endpoint |-> IF again.err = NoErr THEN r.url ELSE endpointURL]
        ELSE [err |-> NoErr, req |-> copied, endpoint |-> r.url]

\* redirectHeaders(req, via), with last = via[len(via)-1]: the error, the
\* request as the hook leaves it and the endpoint URL as it leaves it.
redirectHeaders(r, viaLen, last, credsOK) ==
    IF StoppedAfterRedirects(viaLen)
    THEN [err |-> PlainError("redirects"), req |-> r, endpoint |-> endpointURL]
    ELSE IF viaLen = 0
    THEN [err |-> NoErr, req |-> r, endpoint |-> endpointURL]
    ELSE
    LET reAuth == last.auth # NoAuth /\ r.Host # last.Host
        copied == IF last.auth # NoAuth /\ r.Host = last.Host /\ r.auth = NoAuth
                  THEN [r EXCEPT !.auth = last.auth]
                  ELSE r
        again  == ReAuthenticate(EffectiveSignerType, copied, r.url)
    IN  IF ~credsOK
        THEN [err |-> PlainError("credentials"), req |-> copied,
              endpoint |-> r.url]
        ELSE IF reAuth
        THEN [err |-> again.err, req |-> [copied EXCEPT !.auth = again.auth],
              endpoint |-> r.url]
        ELSE [err |-> NoErr, req |-> copied, endpoint |-> r.url]

----------------------------------------------------------------------------
(* The environment's inputs. *)

CacheKeys == (BucketNames \cup DottedBucketNames) \ {""}

\* Metadata executeMethod is called with (never a presign request: those go
\* to newRequest directly, from GenUploadPartSignedUrl).
ExecMetadata ==
    { [method |-> "GET", bucketName |-> b, objectName |-> "key.bin",
       queryValues |-> NoQuery, copySource |-> FALSE,
       contentSHA256Hex |-> "", bucketLocation |-> l,
       contentBody |-> body, presignURL |-> FALSE, expires |-> 0] :
      b \in BucketNames, l \in {"", "us-west-2"},
      body \in {"nil", "seeker", "stream", "stdin"} }

\* Answers of the server to the operation's request: status, the error code
\* and region httpRespToErrorResponse reads from the body, and whether the
\* body can be read to its end.
ExecResponses ==
    { [status |-> st, code |-> "", region |-> "", bodyOK |-> TRUE] :
        st \in {200, 204, 206, 503} }
    \cup { [status |-> 400, code |-> "AuthorizationHeaderMalformed",
            region |-> r, bodyOK |-> TRUE] : r \in {"", "eu-west-1"} }
    \cup { [status |-> 400, code |-> "InvalidRegion", region |-> "eu-west-1",
            bodyOK |-> TRUE],
           [status |-> 404, code |-> "NoSuchBucket", region |-> "", bodyOK |-> TRUE],
           [status |-> 500, code |-> "InternalError", region |-> "", bodyOK |-> TRUE],
           [status |-> 403, code |-> "AccessDenied", region |-> "", bodyOK |-> FALSE] }

\* Answers of the server to a bucket location request: the location
\* constraint of the body, and the code and region httpRespToErrorResponse
\* reads from it (the status line when the body is no error document).
LocResponses ==
    { [status |-> 200, code |-> "", region |-> "", lc |-> l, xmlOK |-> TRUE] :
        l \in {"", "EU", "us-west-2"} }
    \cup { [status |-> 200, code |-> "", region |-> "", lc |-> "", xmlOK |-> FALSE],
           [status |-> 206, code |-> "206 Partial Content", region |-> "",
            lc |-> "us-west-2", xmlOK |-> TRUE] }
    \cup { [status |-> 403, code |-> c, region |-> r, lc |-> "", xmlOK |-> TRUE] :
        c \in {"AuthorizationHeaderMalformed", "AccessDenied"},
        r \in {"", "eu-west-1"} }
    \cup { [status |-> 400, code |-> "InvalidRegion", region |-> "us-west-2",
            lc |-> "", xmlOK |-> TRUE],
           [status |-> 404, code |-> "NoSuchBucket", region |-> "",
            lc |-> "", xmlOK |-> TRUE],
           [status |-> 500, code |-> "InternalError", region |-> "",
            lc |-> "", xmlOK |-> TRUE] }

\* Hosts a server redirects to where the chains are not the subject.
RedirectTargets == {"play.min.io", "s3.dualstack.eu-west-1.amazonaws.com"}

\* Errors of the transport that have nothing to do with the context.
TransportErrors == {"closed", "timeout", "other"}

----------------------------------------------------------------------------
(* Construction: New.  Its static V4 provider reports the V4 signer type,   *)
(* or Anonymous when a key is empty; privateNew gets no region and the      *)
(* automatic lookup; then New sets the signer override.                     *)

Init ==
    /\ endpointURL \in Hosts
    /\ region = GetRegionFromURL(endpointURL)
    /\ credsType \in {"Anonymous", "V4"}
    /\ overrideSignerType = IF IsAmazonEndpoint(endpointURL) THEN "V4"
                            ELSE IF IsGoogleEndpoint(endpointURL) THEN "V2"
                            ELSE "Default"
    /\ secure = FALSE
    /\ lookup = "Auto"
    /\ s3AccelerateEndpoint = ""
    /\ bucketLocCache = [b \in CacheKeys |-> NoEntry]
    /\ op = "none"
    /\ args = NoArgs
    /\ pc = "idle"
    /\ metadata = NoMetadata
    /\ ctxDone = FALSE
    /\ isRetryable = FALSE
    /\ reqRetry = MaxRetry
    /\ attempt = 0
    /\ seeks = 0
    /\ bodyPos = 0
    /\ location = ""
    /\ req = NoReq
    /\ ireq = NoReq
    /\ via = 0
    /\ res = NoRes
    /\ err = NoErr
    /\ ev = NoEv
    /\ firstLoc = [b \in CacheKeys |-> NoFirst]
    /\ NoCallers

----------------------------------------------------------------------------
(* executeMethod. *)

\* A budget of one attempt for every body that cannot be seeked, a missing
\* body included.
RetryBudgetSeekerOnly(body) == IF body # "seeker" THEN 1 ELSE MaxRetry

\* executeMethod, lines 972-984: the attempts the retry timer is asked for.
RetryBudget(body) ==
    IF body # "nil" /\ body # "seeker" THEN 1 ELSE MaxRetry

\* executeMethod, lines 969-999: the body's seekability and the budget.
ExecuteMethod(md, pos) ==
    /\ pc = "idle"
    /\ op' = "exec"
    /\ args' = NoArgs
    /\ pc' = "timer"
    /\ metadata' = md
    /\ ctxDone' = FALSE
    /\ isRetryable' = (md.contentBody = "seeker")
    /\ reqRetry' = RetryBudget(md.contentBody)
    /\ attempt' = 0
    /\ seeks' = 0
    /\ bodyPos' = IF md.contentBody = "nil" THEN 0 ELSE pos
    /\ location' = ""
    /\ req' = NoReq
    /\ ireq' = NoReq
    /\ via' = 0
    /\ res' = NoRes
    /\ err' = NoErr
    /\ ev' = [type |-> "executeMethod"]
    /\ UNCHANGED sharedVars
    /\ UNCHANGED << endpointURL, configVars, bucketLocCache, firstLoc >>

\* The caller cancels the context of the executeMethod call in progress.
Cancel ==
    /\ op = "exec"
    /\ pc \notin {"idle", "done"}
    /\ ~ctxDone
    /\ ctxDone' = TRUE
    /\ UNCHANGED sharedVars
    /\ UNCHANGED << endpointURL, configVars, bucketLocCache, op, args, pc, metadata,
                    isRetryable, reqRetry, attempt, seeks, bodyPos, location,
                    req, ireq, via, res, err, ev, firstLoc >>

\* A loop that seeks the body back only before the attempts after the first.
SeeksAfterFirstAttempt(n) == isRetryable /\ n > 1

\* Whether attempt n seeks the body back (lines 1009-1015).
SeeksBeforeAttempt(n) == isRetryable

\* The retry timer hands out the next attempt; the loop body starts with the
\* seek. The seek may fail, which ends the call.
NextAttempt(seekOK) ==
    /\ op = "exec"
    /\ pc = "timer"
    /\ attempt < reqRetry
    /\ attempt' = attempt + 1
    /\ IF SeeksBeforeAttempt(attempt + 1)
       THEN /\ seeks' = seeks + 1
            /\ IF seekOK
               THEN /\ bodyPos' = 0
                    /\ pc' = "build"
                    /\ UNCHANGED << res, err >>
               ELSE /\ pc' = "done"
                    /\ res' = NoRes
                    /\ err' = PlainError("seek")
                    /\ UNCHANGED bodyPos
       ELSE /\ seekOK
            /\ pc' = "build"
            /\ UNCHANGED << seeks, bodyPos, res, err >>
    /\ ev' = [type |-> "attempt", n |-> attempt + 1, afterCancel |-> ctxDone]
    /\ UNCHANGED sharedVars
    /\ UNCHANGED << endpointURL, configVars, bucketLocCache, op, args, metadata,
                    ctxDone, isRetryable, reqRetry, location, req, ireq, via,
                    firstLoc >>

\* The retry timer has handed out its budget: the loop ends, line 1099.
RetriesExhausted ==
    /\ op = "exec"
    /\ pc = "timer"
    /\ attempt >= reqRetry
    /\ pc' = "done"
    /\ ev' = [type |-> "exhausted"]
    /\ UNCHANGED sharedVars
    /\ UNCHANGED << endpointURL, configVars, bucketLocCache, op, args, metadata,
                    ctxDone, isRetryable, reqRetry, attempt, seeks, bodyPos,
                    location, req, ireq, via, res, err, firstLoc >>

----------------------------------------------------------------------------
(* newRequest and what its two callers do with the result. *)

\* A loop that gives up on every failure of newRequest.
ConstructionNeverRetried(e) == FALSE

\* executeMethod, lines 1021-1022: the failure of newRequest is retried.
ConstructionRetryable(e) == isS3CodeRetryable(ToErrorResponseCode(e))

\* executeMethod, lines 1019-1029, and GenUploadPartSignedUrl, lines 955-962.
NewRequestReturns(out) ==
    /\ location' = out.location
    /\ ireq' = NoReq
    /\ IF op = "presign"
       THEN /\ pc' = "done"
            /\ req' = out.req
            /\ err' = out.err
            /\ via' = 0
            /\ UNCHANGED res
       ELSE IF out.err # NoErr
       THEN /\ err' = out.err
            /\ req' = NoReq
            /\ via' = 0
            /\ IF ConstructionRetryable(out.err)
               THEN pc' = "timer" /\ UNCHANGED res
               ELSE pc' = "done" /\ res' = NoRes
       ELSE /\ err' = NoErr
            /\ req' = [out.req EXCEPT !.ctx = TRUE]
            /\ via' = 1
            /\ pc' = "do"
            /\ UNCHANGED res

\* newRequest up to the point where it returns or getBucketLocation sends its
\* request.
NewRequest(credsOK) ==
    /\ pc = "build"
    /\ LET r == ResolveLocation(metadata)
           locReq == getBucketLocationRequest(metadata.bucketName, credsOK)
       IN  /\ ev' = [type |-> "newRequest", src |-> r.src,
                     location |-> r.location,
                     cacheRead |-> r.src \in {"cache", "network"},
                     sent |-> r.src = "network" /\ locReq.err = NoErr,
                     afterCancel |-> ctxDone]
           /\ IF r.src = "network" /\ locReq.err = NoErr
              THEN /\ pc' = "locdo"
                   /\ req' = locReq.req
                   /\ ireq' = NoReq
                   /\ via' = 1
                   /\ UNCHANGED << location, res, err >>
              ELSE IF r.src = "network"
              THEN NewRequestReturns([err |-> locReq.err, req |-> NoReq,
                                      location |-> ""])
              ELSE IF r.err # NoErr
              THEN /\ credsOK
                   /\ NewRequestReturns([err |-> r.err, req |-> NoReq,
                                         location |-> ""])
              ELSE NewRequestReturns(FinishNewRequest(metadata, r.location, credsOK))
    /\ UNCHANGED sharedVars
    /\ UNCHANGED << endpointURL, configVars, bucketLocCache, op, args, metadata,
                    ctxDone, isRetryable, reqRetry, attempt, seeks, bodyPos,
                    firstLoc >>

\* A getBucketLocation that stores what it has whether or not the answer
\* could be used.
ItemsAfterAnyAnswer(items, bucketName, p) ==
    [items EXCEPT ![bucketName] = p.location]

\* getBucketLocation, lines 584-588: the items of the cache after the answer
\* p that processBucketLocationResponse made; Set is not reached on an error.
\* A resolution that returns its answer without storing it.
ItemsNeverStored(items, bucketName, p) == items

ItemsAfterAnswer(items, bucketName, p) ==
    IF p.err # NoErr THEN items
    ELSE [items EXCEPT ![bucketName] = p.location]

\* getBucketLocation, lines 579-589, on the answer to its request, and the rest
\* of newRequest.
LocRespond(resp, credsOK) ==
    /\ pc = "locdo"
    /\ LET b == metadata.bucketName
           p == processBucketLocationResponse(resp)
       IN  /\ ev' = [type |-> "locResponse", resp |-> resp, bucket |-> b,
                     location |-> p.location, err |-> p.err,
                     afterCancel |-> ctxDone]
           /\ IF p.err # NoErr
              THEN /\ credsOK
                   /\ NewRequestReturns([err |-> p.err, req |-> NoReq,
                                         location |-> ""])
                   /\ bucketLocCache' = ItemsAfterAnswer(bucketLocCache, b, p)
                   /\ UNCHANGED firstLoc
              ELSE /\ bucketLocCache' = ItemsAfterAnswer(bucketLocCache, b, p)
                   /\ firstLoc' = [firstLoc EXCEPT ![b] =
                                     [region |-> p.location,
                                      hint |-> resp.status # 200 /\ resp.region # "",
                                      replaced |-> FALSE]]
                   /\ NewRequestReturns(FinishNewRequest(metadata, p.location,
                                                         credsOK))
    /\ UNCHANGED sharedVars
    /\ UNCHANGED << endpointURL, configVars, op, args, metadata, ctxDone, isRetryable,
                    reqRetry, attempt, seeks, bodyPos >>

\* c.do fails inside getBucketLocation, lines 581-583.
LocTransportError(kind) ==
    /\ pc = "locdo"
    /\ ev' = [type |-> "locError", kind |-> kind, afterCancel |-> ctxDone]
    /\ NewRequestReturns([err |-> PlainError(kind), req |-> NoReq,
                          location |-> ""])
    /\ UNCHANGED sharedVars
    /\ UNCHANGED << endpointURL, configVars, bucketLocCache, op, args, metadata,
                    ctxDone, isRetryable, reqRetry, attempt, seeks, bodyPos,
                    firstLoc >>

----------------------------------------------------------------------------
(* The transport: redirects, answers and errors. *)

\* A failed c.do that leaves the response of an earlier attempt in place.
DoFailedKeepsResponse(e) ==
    /\ UNCHANGED res
    /\ err' = e
    /\ req' = NoReq
    /\ ireq' = NoReq
    /\ via' = 0
    /\ bodyPos' = IF metadata.contentBody = "nil" THEN bodyPos ELSE 1
    /\ pc' = IF isHTTPReqErrorRetryable(e) THEN "timer" ELSE "done"

\* executeMethod, lines 1032-1040: c.do returned an error.
DoFailed(e) ==
    /\ res' = NoRes
    /\ err' = e
    /\ req' = NoReq
    /\ ireq' = NoReq
    /\ via' = 0
    /\ bodyPos' = IF metadata.contentBody = "nil" THEN bodyPos ELSE 1
    /\ pc' = IF isHTTPReqErrorRetryable(e) THEN "timer" ELSE "done"

\* The server answers the request in flight with a redirect to target. The
\* http client makes the next request (Host as it sets it: empty, or the
\* target's host; the first request's headers, Authorization only when the
\* target is the first request's host) and calls the hook on it.
Redirect(target, hostField, credsOK, hops) ==
    /\ pc \in {"locdo", "do"}
    /\ via <= hops
    /\ ~(req.ctx /\ ctxDone)
    /\ LET first == IF via = 1 THEN req ELSE ireq
           r0 == [Host |-> hostField, url |-> target, path |-> req.path,
                  query |-> req.query, sha256 |-> req.sha256, ctx |-> req.ctx,
                  kind |-> req.kind,
                  auth |-> IF target = first.url THEN first.auth ELSE NoAuth]
           h == redirectHeaders(r0, via, req, credsOK)
       IN  /\ endpointURL' = h.endpoint
           /\ ev' = [type |-> "redirect", viaLen |-> via, last |-> req,
                     new |-> r0, out |-> h.req, err |-> h.err,
                     signerType |-> EffectiveSignerType, credsOK |-> credsOK]
           /\ IF h.err = NoErr
              THEN /\ req' = h.req
                   /\ ireq' = first
                   /\ via' = via + 1
                   /\ UNCHANGED << pc, location, res, err, bodyPos >>
              ELSE IF pc = "locdo"
              THEN /\ NewRequestReturns([err |-> h.err, req |-> NoReq,
                                         location |-> ""])
                   /\ UNCHANGED bodyPos
              ELSE /\ DoFailed(h.err)
                   /\ UNCHANGED location
    /\ UNCHANGED sharedVars
    /\ UNCHANGED << configVars, bucketLocCache, op, args, metadata, ctxDone,
                    isRetryable, reqRetry, attempt, seeks, firstLoc >>

\* A region correction that applies when the bucket has no cache entry.
RegionCorrectionWithoutEntry(resp) ==
    /\ metadata.bucketLocation = ""
    /\ region = ""
    /\ resp.code \in {"AuthorizationHeaderMalformed", "InvalidRegion"}
    /\ metadata.bucketName # ""
    /\ resp.region # ""
    /\ bucketLocCache[metadata.bucketName] = NoEntry

\* executeMethod, lines 1074-1083: the region correction applies.
RegionCorrection(resp) ==
    /\ metadata.bucketLocation = ""
    /\ region = ""
    /\ resp.code \in {"AuthorizationHeaderMalformed", "InvalidRegion"}
    /\ metadata.bucketName # ""
    /\ resp.region # ""
    /\ bucketLocCache[metadata.bucketName] # NoEntry

\* errBodySeeker.Seek(0, 0), line 1065.
SeekToStart(at) == "start"

\* Lines 1058-1066: where the saved copy of the error body is read from next.
\* bytes.NewReader starts at the first byte, httpRespToErrorResponse decodes
\* the copy to its end, then the reader is seeked back.
SavedBodyAt ==
    LET fresh == "start"
        parsed == "end"
    IN  SeekToStart(parsed)

\* A loop that builds the next request at once after a region correction.
RebuildAt == "build"

\* The continue of line 1080: the loop takes its next attempt from the retry
\* timer of line 1004.
ContinueAt == "timer"

\* A retry decision that looks at the error code only.
ErrorRetryableByCode(resp) == isS3CodeRetryable(resp.code)

\* executeMethod, lines 1087-1094: the error code or the status is retryable.
ErrorRetryable(resp) ==
    isS3CodeRetryable(resp.code) \/ isHTTPStatusRetryable(resp.status)

\* executeMethod, lines 1042-1098: an answer to the operation's request.
ExecRespond(resp) ==
    /\ pc = "do"
    /\ ~ctxDone
    /\ bodyPos' = IF metadata.contentBody = "nil" THEN bodyPos ELSE 1
    /\ req' = NoReq
    /\ ireq' = NoReq
    /\ via' = 0
    /\ ev' = [type |-> "response", resp |-> resp, n |-> attempt,
              corrected |-> ~IsSuccessStatus(resp.status) /\ resp.bodyOK
                            /\ RegionCorrection(resp)]
    /\ IF IsSuccessStatus(resp.status)
       THEN /\ res' = [status |-> resp.status, code |-> resp.code,
                       region |-> resp.region, drained |-> FALSE,
                       bodyAt |-> "start"]
            /\ err' = NoErr
            /\ pc' = "done"
            /\ UNCHANGED << bucketLocCache, firstLoc >>
       ELSE IF ~resp.bodyOK
       THEN /\ res' = NoRes
            /\ err' = PlainError("read")
            /\ pc' = "done"
            /\ UNCHANGED << bucketLocCache, firstLoc >>
       ELSE /\ res' = [status |-> resp.status, code |-> resp.code,
                       region |-> resp.region, drained |-> TRUE,
                       bodyAt |-> SavedBodyAt]
            /\ err' = NoErr
            /\ IF RegionCorrection(resp)
               THEN /\ bucketLocCache' =
                         [bucketLocCache EXCEPT ![metadata.bucketName] = resp.region]
                    /\ firstLoc' = [firstLoc EXCEPT
                                       ![metadata.bucketName].replaced = TRUE]
                    /\ pc' = ContinueAt
               ELSE /\ UNCHANGED << bucketLocCache, firstLoc >>
                    /\ pc' = IF ErrorRetryable(resp) THEN "timer" ELSE "done"
    /\ UNCHANGED sharedVars
    /\ UNCHANGED << endpointURL, configVars, op, args, metadata, ctxDone, isRetryable,
                    reqRetry, attempt, seeks, location >>

\* c.do fails for the operation's request: a transport error, or, once the
\* context is cancelled, the context's error.
ExecTransportError(kind) ==
    /\ pc = "do"
    /\ ctxDone = (kind = "canceled")
    /\ ev' = [type |-> "transportError", kind |-> kind, n |-> attempt]
    /\ DoFailed(PlainError(kind))
    /\ UNCHANGED sharedVars
    /\ UNCHANGED << endpointURL, configVars, bucketLocCache, op, args, metadata,
                    ctxDone, isRetryable, reqRetry, attempt, seeks, location,
                    firstLoc >>

----------------------------------------------------------------------------
(* GenUploadPartSignedUrl. *)

\* Largest part size, in MiB (5 GiB).
maxPartSize == 5120

\* int64(expires/time.Second), expires in milliseconds.
ExpiresSeconds(expiresMs) == expiresMs \div 1000

\* The decimal digit d as a string.
Digit(d) == <<"0", "1", "2", "3", "4", "5", "6", "7", "8", "9">>[d + 1]

\* strconv.Itoa.
RECURSIVE Itoa(_)
Itoa(n) ==
    IF n < 0 THEN "-" \o Itoa(0 - n)
    ELSE IF n < 10 THEN Digit(n)
    ELSE Itoa(n \div 10) \o Digit(n % 10)

\* The input validation without the check of the upload id.
ValidateUploadPartNoUploadID(uploadID, bucketName, objectName, partNumber, size) ==
    IF ~CheckValidBucketName(bucketName) THEN PlainError("bucketName")
    ELSE IF ~CheckValidObjectName(objectName) THEN PlainError("objectName")
    ELSE IF size > maxPartSize THEN PlainError("size is illegal")
    ELSE IF size <= -1 THEN PlainError("size is illegal")
    ELSE IF partNumber <= 0 THEN PlainError("partNumber is illegal")
    ELSE NoErr

\* GenUploadPartSignedUrl, lines 911-929: the first check that fails.
ValidateUploadPart(uploadID, bucketName, objectName, partNumber, size) ==
    IF ~CheckValidBucketName(bucketName) THEN PlainError("bucketName")
    ELSE IF ~CheckValidObjectName(objectName) THEN PlainError("objectName")
    ELSE IF size > maxPartSize THEN PlainError("size is illegal")
    ELSE IF size <= -1 THEN PlainError("size is illegal")
    ELSE IF partNumber <= 0 THEN PlainError("partNumber is illegal")
    ELSE IF uploadID = "" THEN PlainError("uploadID is illegal")
    ELSE NoErr

\* GenUploadPartSignedUrl up to its call of newRequest.
GenUploadPartSignedUrl(uploadID, bucketName, objectName, partNumber, size, expiresMs, bucketLoc) ==
    /\ pc = "idle"
    /\ op' = "presign"
    /\ args' = [uploadID |-> uploadID, partNumber |-> partNumber, size |-> size,
                expiresMs |-> expiresMs]
    /\ LET e == ValidateUploadPart(uploadID, bucketName, objectName, partNumber,
                                   size)
       IN  /\ err' = e
           /\ pc' = IF e = NoErr THEN "build" ELSE "done"
           /\ metadata' = [method |-> "PUT", bucketName |-> bucketName,
                           objectName |-> objectName,
                           queryValues |-> [partNumber |-> Itoa(partNumber),
                                            uploadId |-> uploadID],
                           contentSHA256Hex |-> "",
                           copySource |-> FALSE, bucketLocation |-> bucketLoc,
                           contentBody |-> "nil", presignURL |-> TRUE,
                           expires |-> ExpiresSeconds(expiresMs)]
           /\ ev' = [type |-> "GenUploadPartSignedUrl", err |-> e]
    /\ ctxDone' = FALSE
    /\ isRetryable' = FALSE
    /\ reqRetry' = MaxRetry
    /\ attempt' = 0
    /\ seeks' = 0
    /\ bodyPos' = 0
    /\ location' = ""
    /\ req' = NoReq
    /\ ireq' = NoReq
    /\ via' = 0
    /\ res' = NoRes
    /\ UNCHANGED sharedVars
    /\ UNCHANGED << endpointURL, configVars, bucketLocCache, firstLoc >>

----------------------------------------------------------------------------

\* The call has returned and its caller has taken the result; the client is
\* free for the next call.
Return ==
    /\ pc = "done"
    /\ pc' = "idle"
    /\ op' = "none"
    /\ args' = NoArgs
    /\ metadata' = NoMetadata
    /\ ctxDone' = FALSE
    /\ isRetryable' = FALSE
    /\ reqRetry' = MaxRetry
    /\ attempt' = 0
    /\ seeks' = 0
    /\ bodyPos' = 0
    /\ location' = ""
    /\ req' = NoReq
    /\ ireq' = NoReq
    /\ via' = 0
    /\ res' = NoRes
    /\ err' = NoErr
    /\ ev' = [type |-> "return"]
    /\ UNCHANGED sharedVars
    /\ UNCHANGED << endpointURL, configVars, bucketLocCache, firstLoc >>

----------------------------------------------------------------------------
(* The retry loop, region resolution and the cache. *)

Next ==
    \/ \E md \in ExecMetadata : ExecuteMethod(md, 1)
    \/ Cancel
    \/ \E seekOK \in BOOLEAN : NextAttempt(seekOK)
    \/ RetriesExhausted
    \/ \E credsOK \in BOOLEAN : NewRequest(credsOK)
    \/ \E resp \in LocResponses, credsOK \in BOOLEAN : LocRespond(resp, credsOK)
    \/ \E kind \in TransportErrors : LocTransportError(kind)
    \/ \E target \in RedirectTargets, credsOK \in BOOLEAN :
          Redirect(target, "", credsOK, FewHops)
    \/ \E resp \in ExecResponses : ExecRespond(resp)
    \/ \E kind \in TransportErrors \cup {"canceled"} : ExecTransportError(kind)
    \/ Return

Spec == Init /\ [][Next]_vars

----------------------------------------------------------------------------
(* Redirect chains, followed to their end. *)

RedirectMetadata ==
    { md \in ExecMetadata :
         md.bucketName \in {"", "bkt"} /\ md.bucketLocation = ""
         /\ md.contentBody = "nil" }

NextRedirect ==
    \/ \E md \in RedirectMetadata : ExecuteMethod(md, 0)
    \/ NextAttempt(TRUE)
    \/ RetriesExhausted
    \/ \E credsOK \in BOOLEAN : NewRequest(credsOK)
    \/ \E resp \in {r \in LocResponses : r.status = 200 /\ r.lc = ""} :
          LocRespond(resp, TRUE)
    \/ \E target \in Hosts, credsOK \in BOOLEAN :
          \E hostField \in {"", target} :
             Redirect(target, hostField, credsOK, MaxHops)
    \/ \E resp \in {r \in ExecResponses : r.status \in {200, 503}} :
          ExecRespond(resp)
    \/ Return

SpecRedirect == Init /\ [][NextRedirect]_vars

----------------------------------------------------------------------------
(* Presigned upload-part URLs. *)

NextPresign ==
    \/ \E uploadID \in {"", "upload-1"}, bucketName \in BucketNames,
          objectName \in {"", "key.bin"}, partNumber \in {0, 3, 12},
          size \in {-1, 1024, maxPartSize + 1}, expiresMs \in {0, 500, 3600000},
          bucketLoc \in {"", "us-west-2"} :
          GenUploadPartSignedUrl(uploadID, bucketName, objectName, partNumber,
                                 size, expiresMs, bucketLoc)
    \/ \E credsOK \in BOOLEAN : NewRequest(credsOK)
    \/ \E resp \in LocResponses, credsOK \in BOOLEAN : LocRespond(resp, credsOK)
    \/ \E kind \in TransportErrors : LocTransportError(kind)
    \/ \E target \in Hosts, credsOK \in BOOLEAN :
          \E hostField \in {"", target} :
             Redirect(target, hostField, credsOK, FewHops)
    \/ Return

SpecPresign == Init /\ [][NextPresign]_vars

----------------------------------------------------------------------------
(* Request construction over the client configurations privateNew and the   *)
(* fields of Client allow.                                                  *)

\* The accelerate endpoint a client may be given.
AccelerateEndpoint == "s3-accelerate.amazonaws.com"

\* A client that has made no call yet.
NoCallYet ==
    /\ bucketLocCache = [b \in CacheKeys |-> NoEntry]
    /\ op = "none"
    /\ args = NoArgs
    /\ pc = "idle"
    /\ metadata = NoMetadata
    /\ ctxDone = FALSE
    /\ isRetryable = FALSE
    /\ reqRetry = MaxRetry
    /\ attempt = 0
    /\ seeks = 0
    /\ bodyPos = 0
    /\ location = ""
    /\ req = NoReq
    /\ ireq = NoReq
    /\ via = 0
    /\ res = NoRes
    /\ err = NoErr
    /\ ev = NoEv
    /\ firstLoc = [b \in CacheKeys |-> NoFirst]
    /\ NoCallers

\* New over http or https, then any lookup style and, or not, an accelerate
\* endpoint.
InitBuild ==
    /\ endpointURL \in {"play.min.io", "s3.amazonaws.com"}
    /\ region = GetRegionFromURL(endpointURL)
    /\ credsType \in {"Anonymous", "V4"}
    /\ overrideSignerType = IF IsAmazonEndpoint(endpointURL) THEN "V4"
                            ELSE "Default"
    /\ secure \in BOOLEAN
    /\ lookup \in {"Auto", "DNS", "Path"}
    /\ s3AccelerateEndpoint \in {"", AccelerateEndpoint}
    /\ NoCallYet

BuildMetadata ==
    { [method |-> m, bucketName |-> b, objectName |-> o,
       queryValues |-> q, copySource |-> FALSE, contentSHA256Hex |-> "",
       bucketLocation |-> "us-west-2",
       contentBody |-> "nil", presignURL |-> FALSE, expires |-> 0] :
      m \in {"GET", "PUT"}, b \in BucketNames \cup DottedBucketNames,
      o \in {"", "key.bin"},
      q \in {NoQuery, [partNumber |-> "", uploadId |-> "upload-1"]} }

NextBuild ==
    \/ \E md \in BuildMetadata : ExecuteMethod(md, 0)
    \/ NextAttempt(TRUE)
    \/ \E credsOK \in BOOLEAN : NewRequest(credsOK)
    \/ \E resp \in {r \in ExecResponses : r.status = 200} : ExecRespond(resp)
    \/ Return

SpecBuild == InitBuild /\ [][NextBuild]_vars

----------------------------------------------------------------------------
(* Signing, over the signer types of provider and client.                   *)

\* privateNew with any credential provider, over http or https, then any
\* signer override.
InitSign ==
    /\ endpointURL \in {"play.min.io", "s3.amazonaws.com"}
    /\ region = GetRegionFromURL(endpointURL)
    /\ credsType \in {"Anonymous", "V2", "V4"}
    /\ overrideSignerType \in {"Default", "V2", "V4"}
    /\ secure \in BOOLEAN
    /\ lookup = "Auto"
    /\ s3AccelerateEndpoint = ""
    /\ NoCallYet

SignMetadata ==
    { [method |-> m, bucketName |-> "bkt", objectName |-> o,
       queryValues |-> NoQuery, copySource |-> cs, contentSHA256Hex |-> sha,
       bucketLocation |-> l,
       contentBody |-> "nil", presignURL |-> FALSE, expires |-> 0] :
      m \in {"GET", "PUT"}, o \in {"", "key.bin"}, cs \in BOOLEAN,
      sha \in {"", "9f86d081884c7d65"}, l \in {"", "us-west-2"} }

NextSign ==
    \/ \E md \in SignMetadata : ExecuteMethod(md, 0)
    \/ NextAttempt(TRUE)
    \/ NewRequest(TRUE)
    \/ \E resp \in {r \in LocResponses : r.status = 200 /\ r.lc = "EU"} :
          LocRespond(resp, TRUE)
    \/ \E hostField \in {"", "play.min.io"} :
          Redirect("play.min.io", hostField, TRUE, FewHops)
    \/ \E resp \in {r \in ExecResponses : r.status = 200} : ExecRespond(resp)
    \/ Return

SpecSign == InitSign /\ [][NextSign]_vars

----------------------------------------------------------------------------
(* The retry loop on one bucket, where the thread of the call keeps running *)
(* and every network call comes back, with an answer or with an error.      *)

InitTerminates ==
    /\ endpointURL \in {"play.min.io", "s3.amazonaws.com"}
    /\ region = GetRegionFromURL(endpointURL)
    /\ credsType \in {"Anonymous", "V4"}
    /\ overrideSignerType = IF IsAmazonEndpoint(endpointURL) THEN "V4"
                            ELSE IF IsGoogleEndpoint(endpointURL) THEN "V2"
                            ELSE "Default"
    /\ secure = FALSE
    /\ lookup = "Auto"
    /\ s3AccelerateEndpoint = ""
    /\ NoCallYet

TerminatesMetadata ==
    { md \in ExecMetadata : md.bucketName = "bkt" /\ md.bucketLocation = "" }

NextTerminates ==
    \/ \E md \in TerminatesMetadata : ExecuteMethod(md, 1)
    \/ Cancel
    \/ \E seekOK \in BOOLEAN : NextAttempt(seekOK)
    \/ RetriesExhausted
    \/ \E credsOK \in BOOLEAN : NewRequest(credsOK)
    \/ \E resp \in LocResponses, credsOK \in BOOLEAN : LocRespond(resp, credsOK)
    \/ \E kind \in TransportErrors : LocTransportError(kind)
    \/ \E target \in RedirectTargets, credsOK \in BOOLEAN :
          Redirect(target, "", credsOK, FewHops)
    \/ \E resp \in ExecResponses : ExecRespond(resp)
    \/ \E kind \in TransportErrors \cup {"canceled"} : ExecTransportError(kind)
    \/ Return

SpecTerminates ==
    InitTerminates /\ [][NextTerminates]_vars /\ WF_vars(NextTerminates)

----------------------------------------------------------------------------
(* The retry loop over every way newRequest fails: bucket names that are    *)
(* invalid or dotted, clients with and without an accelerate endpoint.      *)

InitConstruct ==
    /\ endpointURL \in {"play.min.io", "s3.amazonaws.com"}
    /\ region = GetRegionFromURL(endpointURL)
    /\ credsType \in {"Anonymous", "V4"}
    /\ overrideSignerType = IF IsAmazonEndpoint(endpointURL) THEN "V4"
                            ELSE "Default"
    /\ secure = FALSE
    /\ lookup = "Auto"
    /\ s3AccelerateEndpoint \in {"", AccelerateEndpoint}
    /\ NoCallYet

ConstructMetadata ==
    { [NoMetadata EXCEPT !.method = "GET", !.bucketName = b,
                         !.objectName = "key.bin", !.bucketLocation = l,
                         !.contentBody = body] :
      b \in {"bkt", "my.bkt", "Bad_Bucket"}, l \in {"", "us-west-2"},
      body \in {"nil", "stream"} }

NextConstruct ==
    \/ \E md \in ConstructMetadata : ExecuteMethod(md, 1)
    \/ NextAttempt(TRUE)
    \/ RetriesExhausted
    \/ \E credsOK \in BOOLEAN : NewRequest(credsOK)
    \/ \E resp \in LocResponses, credsOK \in BOOLEAN : LocRespond(resp, credsOK)
    \/ \E kind \in TransportErrors : LocTransportError(kind)
    \/ \E resp \in ExecResponses : ExecRespond(resp)
    \/ \E kind \in TransportErrors : ExecTransportError(kind)
    \/ Return

SpecConstruct == InitConstruct /\ [][NextConstruct]_vars

----------------------------------------------------------------------------
(* Every operation that reaches the region cache, one call after another:   *)
(* executeMethod and GenUploadPartSignedUrl on one bucket, with or without  *)
(* a bucket location given.                                                 *)

EntriesMetadata ==
    { md \in ExecMetadata : /\ md.bucketName = "bkt"
                            /\ md.contentBody \in {"nil", "stream"} }

NextEntries ==
    \/ \E md \in EntriesMetadata : ExecuteMethod(md, 1)
    \/ \E uploadID \in {"", "upload-1"}, bucketLoc \in {"", "us-west-2"} :
          GenUploadPartSignedUrl(uploadID, "bkt", "key.bin", 3, 5, 60000,
                                 bucketLoc)
    \/ NextAttempt(TRUE)
    \/ RetriesExhausted
    \/ \E credsOK \in BOOLEAN : NewRequest(credsOK)
    \/ \E resp \in LocResponses, credsOK \in BOOLEAN : LocRespond(resp, credsOK)
    \/ \E kind \in TransportErrors : LocTransportError(kind)
    \/ \E resp \in ExecResponses : ExecRespond(resp)
    \/ \E kind \in TransportErrors : ExecTransportError(kind)
    \/ Return

SpecEntries == InitTerminates /\ [][NextEntries]_vars

----------------------------------------------------------------------------
(* Two callers resolve bucket regions on one client at once:                *)
(* getBucketLocation with bucketLocationCache.Get and Set, step by step.    *)
(* Each caller makes one call.                                              *)

\* A cache write that keeps an entry that is already there.
CacheSetIfAbsent(items, bucketName, loc) ==
    IF items[bucketName] = NoEntry THEN [items EXCEPT ![bucketName] = loc]
    ELSE items

\* bucketLocationCache.Set, line 596.
CacheSet(items, bucketName, loc) == [items EXCEPT ![bucketName] = loc]

\* getBucketLocation, lines 559-568, up to its call of Get.
GetBucketLocation(p, bucketName) ==
    /\ calls[p].pc = "idle"
    /\ LET c0 == [NoCall EXCEPT !.bucketName = bucketName,
                                !.entryHost = endpointURL,
                                !.entryScheme = endpointScheme]
       IN  calls' = [calls EXCEPT ![p] =
              IF ~CheckValidBucketName(bucketName)
              THEN [c0 EXCEPT !.pc = "done", !.err = PlainError("bucketName")]
              ELSE IF region # ""
              THEN [c0 EXCEPT !.pc = "done", !.ret = region]
              ELSE [c0 EXCEPT !.pc = "get"]]
    /\ UNCHANGED << endpointURL, endpointScheme, configVars, bucketLocCache, mu,
                    writes, oneCallVars >>

\* Get, line 373: r.RLock().
CacheRLock(p) ==
    /\ calls[p].pc = "get"
    /\ mu.writer = "none"
    /\ mu' = [mu EXCEPT !.readers = @ \cup {p}]
    /\ calls' = [calls EXCEPT ![p].pc = "getLocked"]
    /\ UNCHANGED << endpointURL, endpointScheme, configVars, bucketLocCache,
                    writes, oneCallVars >>

\* Get, line 375: location, ok = r.items[bucketName].
CacheRead(p) ==
    /\ calls[p].pc = "getLocked"
    /\ LET item == bucketLocCache[calls[p].bucketName]
       IN  calls' = [calls EXCEPT
                        ![p].pc = "getRead",
                        ![p].ok = (item # NoEntry),
                        ![p].location = IF item # NoEntry THEN item ELSE ""]
    /\ UNCHANGED << endpointURL, endpointScheme, configVars, bucketLocCache, mu,
                    writes, oneCallVars >>

\* Get returns, line 374: the deferred r.RUnlock(); then lines 568-570.
CacheRUnlock(p) ==
    /\ calls[p].pc = "getRead"
    /\ mu' = [mu EXCEPT !.readers = @ \ {p}]
    /\ calls' = [calls EXCEPT ![p] =
          IF calls[p].ok
          THEN [@ EXCEPT !.pc = "done", !.ret = calls[p].location]
          ELSE [@ EXCEPT !.pc = "request"]]
    /\ UNCHANGED << endpointURL, endpointScheme, configVars, bucketLocCache,
                    writes, oneCallVars >>

\* getBucketLocation, lines 573-580: the request is made and sent.
SendLocationRequest(p, credsOK) ==
    /\ calls[p].pc = "request"
    /\ LET r == getBucketLocationRequest(calls[p].bucketName, credsOK)
       IN  calls' = [calls EXCEPT ![p] =
              IF r.err # NoErr
              THEN [@ EXCEPT !.pc = "done", !.err = r.err]
              ELSE [@ EXCEPT !.pc = "do", !.req = r.req,
                             !.scheme = endpointScheme, !.via = 1]]
    /\ UNCHANGED << endpointURL, endpointScheme, configVars, bucketLocCache, mu,
                    writes, oneCallVars >>

\* getBucketLocation, lines 581-587: the answer and what
\* processBucketLocationResponse makes of it.
LocationAnswer(p, resp) ==
    /\ calls[p].pc = "do"
    /\ LET r == processBucketLocationResponse(resp)
       IN  calls' = [calls EXCEPT ![p] =
              IF r.err # NoErr
              THEN [@ EXCEPT !.pc = "done", !.resp = resp, !.err = r.err]
              ELSE [@ EXCEPT !.pc = "set", !.resp = resp,
                             !.location = r.location]]
    /\ UNCHANGED << endpointURL, endpointScheme, configVars, bucketLocCache, mu,
                    writes, oneCallVars >>

\* getBucketLocation, lines 581-583: c.do failed.
LocationError(p, kind) ==
    /\ calls[p].pc = "do"
    /\ calls' = [calls EXCEPT ![p].pc = "done", ![p].err = PlainError(kind)]
    /\ UNCHANGED << endpointURL, endpointScheme, configVars, bucketLocCache, mu,
                    writes, oneCallVars >>

\* Set, line 594: r.Lock().
CacheLock(p) ==
    /\ calls[p].pc = "set"
    /\ mu = Unlocked
    /\ mu' = [mu EXCEPT !.writer = p]
    /\ calls' = [calls EXCEPT ![p].pc = "setLocked"]
    /\ UNCHANGED << endpointURL, endpointScheme, configVars, bucketLocCache,
                    writes, oneCallVars >>

\* Set, line 596: r.items[bucketName] = location.
CacheWrite(p) ==
    /\ calls[p].pc = "setLocked"
    /\ bucketLocCache' = CacheSet(bucketLocCache, calls[p].bucketName,
                                  calls[p].location)
    /\ writes' = Append(writes, [by |-> p, bucketName |-> calls[p].bucketName,
                                 location |-> calls[p].location])
    /\ calls' = [calls EXCEPT ![p].pc = "setWritten"]
    /\ UNCHANGED << endpointURL, endpointScheme, configVars, mu, oneCallVars >>

\* Set returns, line 595: the deferred r.Unlock(); then line 589.
CacheUnlock(p) ==
    /\ calls[p].pc = "setWritten"
    /\ mu' = [mu EXCEPT !.writer = "none"]
    /\ calls' = [calls EXCEPT ![p].pc = "done", ![p].ret = calls[p].location]
    /\ UNCHANGED << endpointURL, endpointScheme, configVars, bucketLocCache,
                    writes, oneCallVars >>

InitCache ==
    /\ endpointURL \in {"play.min.io", "s3.amazonaws.com"}
    /\ region = GetRegionFromURL(endpointURL)
    /\ credsType \in {"Anonymous", "V4"}
    /\ overrideSignerType = IF IsAmazonEndpoint(endpointURL) THEN "V4"
                            ELSE IF IsGoogleEndpoint(endpointURL) THEN "V2"
                            ELSE "Default"
    /\ secure = FALSE
    /\ lookup = "Auto"
    /\ s3AccelerateEndpoint = ""
    /\ NoCallYet

NextCache ==
    \/ \E p \in Callers, b \in {"bkt", "my.bkt", "Bad_Bucket"} :
          GetBucketLocation(p, b)
    \/ \E p \in Callers : CacheRLock(p)
    \/ \E p \in Callers : CacheRead(p)
    \/ \E p \in Callers : CacheRUnlock(p)
    \/ \E p \in Callers, credsOK \in BOOLEAN : SendLocationRequest(p, credsOK)
    \/ \E p \in Callers, resp \in LocResponses : LocationAnswer(p, resp)
    \/ \E p \in Callers, kind \in TransportErrors : LocationError(p, kind)
    \/ \E p \in Callers : CacheLock(p)
    \/ \E p \in Callers : CacheWrite(p)
    \/ \E p \in Callers : CacheUnlock(p)

SpecCache == InitCache /\ [][NextCache]_vars

----------------------------------------------------------------------------
(* Two callers send requests on one client at once: newRequest with         *)
(* makeTargetURL, and the redirect hook, which copies the URL of the        *)
(* redirect into the client's endpoint URL field by field.  Each caller     *)
(* makes one call and follows at most one redirect.                         *)

\* The metadata of the two callers: the location is given, so no bucket
\* location is looked up.
SharedMetadata ==
    [NoMetadata EXCEPT !.method = "GET", !.bucketName = "bkt",
                       !.objectName = "key.bin", !.bucketLocation = "us-west-2"]

\* The URLs a server redirects a caller to.
SharedTargets ==
    { [host |-> h, scheme |-> sc] :
        h \in {"play.min.io", "storage.googleapis.com"},
        sc \in {"http", "https"} }

\* A hook that leaves the client's endpoint URL as it is.
TrackedEndpointKept(old, new) == old

\* redirectHeaders, line 257: *c.endpointURL = *req.URL, for one field.
TrackedEndpoint(old, new) == new

\* executeMethod calls newRequest, line 1019.
CallNewRequest(p) ==
    /\ calls[p].pc = "idle"
    /\ calls' = [calls EXCEPT ![p] =
                    [NoCall EXCEPT !.pc = "build",
                                   !.bucketName = SharedMetadata.bucketName,
                                   !.entryHost = endpointURL,
                                   !.entryScheme = endpointScheme]]
    /\ UNCHANGED << endpointURL, endpointScheme, configVars, bucketLocCache, mu,
                    writes, oneCallVars >>

\* newRequest, lines 774-905, with makeTargetURL reading the endpoint's host
\* (line 704) and scheme (line 727); then c.do sends the request.
BuildRequest(p, credsOK) ==
    /\ calls[p].pc = "build"
    /\ LET out == FinishNewRequest(SharedMetadata, SharedMetadata.bucketLocation,
                                   credsOK)
       IN  calls' = [calls EXCEPT ![p] =
              IF out.err # NoErr
              THEN [@ EXCEPT !.pc = "done", !.err = out.err]
              ELSE [@ EXCEPT !.pc = "do", !.host = endpointURL,
                             !.scheme = endpointScheme, !.req = out.req,
                             !.via = 1]]
    /\ UNCHANGED << endpointURL, endpointScheme, configVars, bucketLocCache, mu,
                    writes, oneCallVars >>

\* The server answers with a redirect to the URL to; the http client calls
\* redirectHeaders for it, which gets to line 257.
RedirectArrives(p, to) ==
    /\ calls[p].pc = "do"
    /\ calls[p].via = 1
    /\ calls' = [calls EXCEPT ![p].pc = "hook", ![p].toHost = to.host,
                              ![p].toScheme = to.scheme, ![p].wrote = {}]
    /\ UNCHANGED << endpointURL, endpointScheme, configVars, bucketLocCache, mu,
                    writes, oneCallVars >>

\* redirectHeaders, line 257: the copy of one field of the URL. The copy of
\* the struct is not atomic and takes no lock; the order of its fields is the
\* compiler's.
HookCopy(p, field) ==
    /\ calls[p].pc = "hook"
    /\ field \notin calls[p].wrote
    /\ IF field = "Host"
       THEN /\ endpointURL' = TrackedEndpoint(endpointURL, calls[p].toHost)
            /\ UNCHANGED endpointScheme
       ELSE /\ endpointScheme' = TrackedEndpoint(endpointScheme, calls[p].toScheme)
            /\ UNCHANGED endpointURL
    /\ calls' = [calls EXCEPT ![p].wrote = @ \cup {field}]
    /\ UNCHANGED << configVars, bucketLocCache, mu, writes, oneCallVars >>

\* redirectHeaders, lines 244-255 and 259-294: the headers of the last
\* request, the credentials, and the request signed again, for the endpoint
\* the client tracks by then.
HookReturn(p, credsOK) ==
    /\ calls[p].pc = "hook"
    /\ calls[p].wrote = {"Host", "Scheme"}
    /\ LET last   == calls[p].req
           r      == [last EXCEPT !.Host = "", !.url = calls[p].toHost,
                                  !.auth = IF calls[p].toHost = last.url
                                           THEN last.auth ELSE NoAuth]
           reAuth == last.auth # NoAuth /\ r.Host # last.Host
           copied == IF last.auth # NoAuth /\ r.Host = last.Host
                        /\ r.auth = NoAuth
                     THEN [r EXCEPT !.auth = last.auth]
                     ELSE r
           again  == ReAuthenticate(EffectiveSignerType, copied, endpointURL)
           e      == IF ~credsOK THEN PlainError("credentials")
                     ELSE IF reAuth THEN again.err
                     ELSE NoErr
       IN  calls' = [calls EXCEPT ![p] =
              IF e # NoErr
              THEN [@ EXCEPT !.pc = "done", !.err = e]
              ELSE [@ EXCEPT !.pc = "do", !.via = 2,
                             !.req = IF reAuth
                                     THEN [copied EXCEPT !.auth = again.auth]
                                     ELSE copied]]
    /\ UNCHANGED << endpointURL, endpointScheme, configVars, bucketLocCache, mu,
                    writes, oneCallVars >>

\* The server answers, or the transport fails: the call ends.
CallReturns(p, e) ==
    /\ calls[p].pc = "do"
    /\ calls' = [calls EXCEPT ![p].pc = "done", ![p].err = e]
    /\ UNCHANGED << endpointURL, endpointScheme, configVars, bucketLocCache, mu,
                    writes, oneCallVars >>

InitShared ==
    /\ endpointURL \in {"play.min.io", "storage.googleapis.com"}
    /\ region = GetRegionFromURL(endpointURL)
    /\ credsType \in {"Anonymous", "V4"}
    /\ overrideSignerType = IF IsAmazonEndpoint(endpointURL) THEN "V4"
                            ELSE IF IsGoogleEndpoint(endpointURL) THEN "V2"
                            ELSE "Default"
    /\ secure \in BOOLEAN
    /\ lookup = "Auto"
    /\ s3AccelerateEndpoint = ""
    /\ NoCallYet

NextShared ==
    \/ \E p \in Callers : CallNewRequest(p)
    \/ \E p \in Callers, credsOK \in BOOLEAN : BuildRequest(p, credsOK)
    \/ \E p \in Callers, to \in SharedTargets : RedirectArrives(p, to)
    \/ \E p \in Callers, field \in {"Scheme", "Host"} : HookCopy(p, field)
    \/ \E p \in Callers, credsOK \in BOOLEAN : HookReturn(p, credsOK)
    \/ \E p \in Callers, e \in {NoErr, PlainError("closed")} : CallReturns(p, e)

SpecShared == InitShared /\ [][NextShared]_vars

----------------------------------------------------------------------------
(* Properties. *)

\* C1: a request with a non-seekable body (a stream, or one of the standard
\* streams) is attempted exactly once; a request with a seekable body is
\* attempted at most MaxRetry times, and its body has been seeked to offset 0
\* before every attempt, the first included.
C1_BodyDecidesAttempts ==
    op = "exec" =>
       /\ metadata.contentBody \in {"stream", "stdin"} =>
             /\ attempt <= 1
             /\ seeks = 0
             /\ pc = "done" => attempt = 1
       /\ metadata.contentBody = "seeker" =>
             /\ attempt <= MaxRetry
             /\ seeks = attempt
             /\ pc \in {"build", "locdo", "do"} => bodyPos = 0

C1_Witness ==
    /\ op = "exec"
    /\ metadata.contentBody = "seeker"
    /\ pc = "do"
    /\ attempt = 2
    /\ seeks = 2
    /\ bodyPos = 0

\* C2: an answer with status 200, 204 or 206 ends the call at once: it is the
\* result, untouched, with a nil error, whatever budget remains; the cache is
\* not written, and nothing but the return to the caller follows.
C2_SuccessEndsLoop ==
    [][ /\ (pc = "do" /\ ev'.type = "response"
               /\ ev'.resp.status \in {200, 204, 206}) =>
              /\ pc' = "done"
              /\ res' = [status |-> ev'.resp.status, code |-> ev'.resp.code,
                         region |-> ev'.resp.region, drained |-> FALSE,
                         bodyAt |-> "start"]
              /\ err' = NoErr
              /\ bucketLocCache' = bucketLocCache
              /\ attempt' = attempt
              /\ seeks' = seeks
        /\ pc = "done" => pc' = "idle" /\ bucketLocCache' = bucketLocCache
      ]_vars

C2_Witness ==
    /\ pc = "done"
    /\ ev.type = "response"
    /\ ev.resp.status = 206
    /\ res.status = 206
    /\ err = NoErr
    /\ attempt = 1
    /\ reqRetry = MaxRetry

\* C3: GenUploadPartSignedUrl with anonymous credentials returns an error and
\* no URL, whatever the expiry.
C3_AnonymousPresignFails ==
    (op = "presign" /\ pc = "done" /\ credsType = "Anonymous") =>
        err # NoErr /\ req = NoReq

\* The hint codes of processBucketLocationResponse.
RegionHintCodes == {"AuthorizationHeaderMalformed", "InvalidRegion", "AccessDenied"}

\* C4, as claimed: once the first resolution of bucket b has stored the region
\* r of a region hint, every later getBucketLocation for b returns r from the
\* cache.
C4_LaterResolutionsReturnFirst ==
    (ev.type = "newRequest" /\ ev.src \in {"cache", "network"}
        /\ firstLoc[metadata.bucketName].hint) =>
        ev.src = "cache" /\ ev.location = firstLoc[metadata.bucketName].region

\* C4, amended: with no fixed region, the first resolution of bucket b, answered
\* by a non-success status with a hint code and region r, stores b -> r and
\* returns r; every later getBucketLocation for b sends no request and returns
\* the cached region, which is r until a region correction replaces it.
C4_HintCachedThenServedFromCache ==
    /\ (ev.type = "locResponse" /\ ev.resp.status # 200
           /\ ev.resp.code \in RegionHintCodes /\ ev.resp.region # "") =>
          /\ ev.err = NoErr
          /\ ev.location = ev.resp.region
          /\ bucketLocCache[ev.bucket] = ev.resp.region
    /\ (ev.type = "newRequest" /\ metadata.bucketLocation = "" /\ region = ""
           /\ CheckValidBucketName(metadata.bucketName)
           /\ firstLoc[metadata.bucketName] # NoFirst) =>
          /\ ev.src = "cache"
          /\ ~ev.sent
          /\ pc # "locdo"
          /\ ev.location = bucketLocCache[metadata.bucketName]
          /\ ~firstLoc[metadata.bucketName].replaced =>
                ev.location = firstLoc[metadata.bucketName].region

C4_Witness ==
    /\ ev.type = "newRequest"
    /\ ev.src = "cache"
    /\ firstLoc[metadata.bucketName].hint
    /\ ~firstLoc[metadata.bucketName].replaced
    /\ ev.location = "eu-west-1"
    /\ op = "exec"
    /\ attempt = 1

\* The region of the endpoint URL u for a client: its fixed region, else the
\* region the URL carries, else us-east-1.
RegionOfTarget(u) ==
    IF region # "" THEN region
    ELSE IF u = "s3.dualstack.eu-west-1.amazonaws.com" THEN "eu-west-1"
    ELSE "us-east-1"

C6_V2CrossHostRedirectFails ==
    (ev.type = "redirect" /\ ev.new.Host # ev.last.Host
        /\ credsType # "Anonymous"
        /\ (overrideSignerType = "V2"
              \/ (overrideSignerType = "Default" /\ credsType = "V2"))) =>
        /\ ev.err # NoErr
        /\ pc \in {"done", "timer"}
        /\ req = NoReq

C6_Witness ==
    /\ ev.type = "redirect"
    /\ ev.new.Host # ev.last.Host
    /\ ev.credsOK
    /\ ev.err = PlainError("redirectV2")
    /\ ev.last.auth.signer = "V2"

\* C7, as claimed: each of the first 5 redirects of a chain passes the hop
\* limit.
C7_FirstFiveRedirectsPass ==
    (ev.type = "redirect" /\ ev.viaLen <= 5) => ev.err # PlainError("redirects")

\* C7, amended: the hook refuses a redirect for the hop limit exactly when 5
\* requests of the chain have been made: each of the first 4 redirects passes
\* the hop limit, the 5th is refused, and no chain gets longer than 5 requests.
C7_FifthRedirectRefused ==
    /\ via <= 5
    /\ ev.type = "redirect" =>
          (ev.err = PlainError("redirects")) = (ev.viaLen >= 5)

C7_Witness ==
    /\ ev.type = "redirect"
    /\ ev.viaLen = 5
    /\ ev.err = PlainError("redirects")
    /\ pc = "done"

\* C8: no region is empty: not the region newRequest has resolved for a request
\* it returns, not the region a V4 signature is made for, not a region held in
\* the cache.
C8_RegionNeverEmpty ==
    /\ \A b \in CacheKeys : bucketLocCache[b] # ""
    /\ pc = "do" => location # ""
    /\ req.auth.signer \in {"V4", "StreamingV4", "PreSignV4"} => req.auth.region # ""

C8_Witness ==
    /\ ev.type = "locResponse"
    /\ ev.resp.status = 403
    /\ ev.resp.region = ""
    /\ bucketLocCache["bkt"] = "us-east-1"
    /\ location = "us-east-1"
    /\ pc = "do"

\* C9: once the context is cancelled, the call sends no bucket location
\* request, takes no answer to one, and starts no attempt after the first.
C9_NothingStartsAfterCancel ==
    /\ (ev.type = "attempt" /\ ev.n > 1) => ~ev.afterCancel
    /\ (ev.type = "newRequest" /\ ev.sent) => ~ev.afterCancel
    /\ ev.type = "locResponse" => ~ev.afterCancel

\* The default C10 names for a request without bucket: the region the
\* endpoint URL carries, else us-east-1.
DefaultOfEndpoint(u) ==
    IF u = "s3.dualstack.eu-west-1.amazonaws.com" THEN "eu-west-1" ELSE "us-east-1"

\* The state right after newRequest has returned a request to executeMethod.
RequestBuilt ==
    ev.type \in {"newRequest", "locResponse"} /\ op = "exec" /\ pc = "do"

\* C10, as claimed: the region is the override; else, with a bucket, the fixed
\* region, else the cached one, else the one looked up; without a bucket, the
\* default of the endpoint URL.
C10_PrecedenceAsClaimed ==
    RequestBuilt =>
        location = IF metadata.bucketLocation # "" THEN metadata.bucketLocation
                   ELSE IF metadata.bucketName = ""
                   THEN DefaultOfEndpoint(endpointURL)
                   ELSE IF region # "" THEN region
                   ELSE bucketLocCache[metadata.bucketName]

\* C10, amended: as claimed, but without a bucket the region is the client's
\* fixed region when it has one, and only else the default of the endpoint
\* URL. An earlier source keeps the later ones from being consulted: with an
\* override, or a fixed region, the cache is not read and no lookup is sent;
\* with a cached region no lookup is sent; the lookup alone writes the cache.
C10_Precedence ==
    /\ RequestBuilt =>
          location = IF metadata.bucketLocation # "" THEN metadata.bucketLocation
                     ELSE IF region # "" THEN region
                     ELSE IF metadata.bucketName = ""
                     THEN DefaultOfEndpoint(endpointURL)
                     ELSE bucketLocCache[metadata.bucketName]
    /\ ev.type = "newRequest" =>
          /\ metadata.bucketLocation # "" =>
                ev.src = "override" /\ ~ev.cacheRead /\ ~ev.sent /\ pc # "locdo"
          /\ (metadata.bucketLocation = "" /\ region # "") =>
                ~ev.cacheRead /\ ~ev.sent /\ pc # "locdo"
          /\ (ev.src = "cache") => ~ev.sent /\ pc # "locdo"
    /\ ev.type = "locResponse" =>
          /\ metadata.bucketLocation = ""
          /\ region = ""
          /\ metadata.bucketName # ""

C10_Witness ==
    /\ RequestBuilt
    /\ ev.type = "newRequest"
    /\ metadata.bucketLocation = "us-west-2"
    /\ metadata.bucketName = "bkt"
    /\ bucketLocCache["bkt"] = "eu-west-1"
    /\ location = "us-west-2"

\* The arguments of the GenUploadPartSignedUrl call in progress pass none of
\* its checks but all of them.
ValidPresignArgs ==
    /\ metadata.bucketName \in {"bkt", "my.bkt"}
    /\ metadata.objectName # ""
    /\ args.size >= 0
    /\ args.size <= maxPartSize
    /\ args.partNumber > 0
    /\ args.uploadID # ""

\* C11: a GenUploadPartSignedUrl call with an invalid bucket or object name, a
\* size above the maximum or negative, a partNumber that is not positive or an
\* empty uploadID ends in the step that starts it, with an error and no URL:
\* no region is resolved, the cache is as it was, no request exists, no
\* attempt is counted, and nothing follows but the return to the caller.
C11_InvalidInputRejectedFirst ==
    [][ /\ (pc = "idle" /\ op' = "presign" /\ ~ValidPresignArgs') =>
              /\ pc' = "done"
              /\ err' # NoErr
              /\ req' = NoReq
              /\ location' = ""
              /\ via' = 0
              /\ attempt' = 0
              /\ bucketLocCache' = bucketLocCache
        /\ (op = "presign" /\ pc = "done") => pc' = "idle" ]_vars

C11_Witness ==
    /\ op = "presign"
    /\ pc = "done"
    /\ ev.type = "GenUploadPartSignedUrl"
    /\ metadata.bucketName = "bkt"
    /\ metadata.objectName = "key.bin"
    /\ args.size = 1024
    /\ args.partNumber = 3
    /\ args.uploadID = ""
    /\ err = PlainError("uploadID is illegal")
    /\ req = NoReq

\* C12: a GenUploadPartSignedUrl call with valid arguments and credentials
\* that are not anonymous, whose region needs no lookup, returns without error
\* a URL for the object with the query parameters partNumber and uploadId of
\* the call and a query-string signature for the resolved region.
C12_ValidInputGivesSignedUrl ==
    (op = "presign" /\ pc = "done" /\ ValidPresignArgs
        /\ credsType # "Anonymous" /\ err.kind # "credentials"
        /\ ev.type = "newRequest" /\ ev.src # "network") =>
        /\ err = NoErr
        /\ req.kind = "presigned"
        /\ req.auth.signer \in {"PreSignV2", "PreSignV4"}
        /\ req.auth.signer = "PreSignV4" => req.auth.region = location
        /\ metadata.bucketLocation # "" => location = metadata.bucketLocation
        /\ req.query.partNumber = (IF args.partNumber = 3 THEN "3" ELSE "12")
        /\ req.query.uploadId = args.uploadID

\* newRequest has made the target URL of the request of the call in progress,
\* or has failed to: its region was resolved before.
TargetURLMade ==
    /\ op = "exec"
    /\ \/ ev.type = "newRequest" /\ ev.src \in {"override", "fixed", "cache"}
       \/ ev.type = "locResponse" /\ ev.err = NoErr

\* C13: on an Amazon endpoint with an accelerate endpoint configured, making
\* the target URL fails with the InvalidArgument error for a bucket name with
\* a period, and for any other non-empty bucket name gives a URL whose host
\* is the accelerate host, prefixed by the bucket name in virtual-host style.
C13_AccelerateTarget ==
    (TargetURLMade /\ endpointURL = "s3.amazonaws.com"
        /\ s3AccelerateEndpoint # "" /\ metadata.bucketName # "") =>
        IF metadata.bucketName = "my.bkt"
        THEN /\ err = S3Error("InvalidArgument")
             /\ req = NoReq
             /\ pc = "done"
        ELSE /\ err.kind \in {"nil", "credentials"}
             /\ err = NoErr =>
                   /\ pc = "do"
                   /\ req.url \in {s3AccelerateEndpoint,
                                   metadata.bucketName \o "." \o s3AccelerateEndpoint}
                   /\ (req.url # s3AccelerateEndpoint) =
                         (/\ ~(metadata.method = "PUT" /\ metadata.objectName = ""
                                /\ metadata.queryValues = NoQuery)
                          /\ \/ lookup = "DNS"
                             \/ lookup = "Auto" /\ metadata.bucketName = "bkt")

C13_Witness ==
    /\ TargetURLMade
    /\ endpointURL = "s3.amazonaws.com"
    /\ s3AccelerateEndpoint = AccelerateEndpoint
    /\ metadata.bucketName = "my.bkt"
    /\ lookup = "Auto"
    /\ err = S3Error("InvalidArgument")
    /\ pc = "done"

\* C14: the location processBucketLocationResponse returns for a decoded
\* location constraint is us-east-1 for the empty string, eu-west-1 for EU and
\* the constraint itself for any other, and normalizing that location again
\* returns it unchanged.
C14_NormalizationIdempotent ==
    (ev.type = "locResponse" /\ ev.resp.status = 200 /\ ev.resp.xmlOK) =>
        /\ ev.err = NoErr
        /\ ev.resp.lc = "" => ev.location = "us-east-1"
        /\ ev.resp.lc = "EU" => ev.location = "eu-west-1"
        /\ ev.resp.lc \notin {"", "EU"} => ev.location = ev.resp.lc
        /\ NormalizeLocation(ev.location) = ev.location
        /\ bucketLocCache[ev.bucket] = ev.location

C14_Witness ==
    /\ ev.type = "locResponse"
    /\ ev.resp.status = 200
    /\ ev.resp.xmlOK
    /\ ev.resp.lc = "EU"
    /\ ev.location = "eu-west-1"
    /\ bucketLocCache["bkt"] = "eu-west-1"

\* The credential provider reports Anonymous.
ProviderAnonymous == credsType = "Anonymous"

\* The V2 signer is in effect: by the override, else by the provider.
V2InEffect ==
    /\ credsType # "Anonymous"
    /\ \/ overrideSignerType = "V2"
       \/ overrideSignerType = "Default" /\ credsType = "V2"

\* C15: the signature of a request newRequest returns to executeMethod is
\* none when the provider reports Anonymous, whatever the override; else the
\* V2 header signature when V2 is in effect (the override when set, else the
\* provider's type); else the streaming V4 signature exactly for a PUT with
\* an object name, no copy source and a client that is not secure, and the
\* standard V4 signature, with the content-sha256 header set to the digest
\* supplied or else to the unsigned-payload sentinel, in every other case.
\* The bucket location request and the redirect hook use the same signer type.
C15_SigningScheme ==
    /\ (op = "exec" /\ pc = "do" /\ via = 1) =>
          IF ProviderAnonymous
          THEN req.auth = NoAuth /\ req.sha256 = ""
          ELSE IF V2InEffect
          THEN req.auth = Signed("V2", "", req.Host) /\ req.sha256 = ""
          ELSE IF metadata.method = "PUT" /\ metadata.objectName # ""
                  /\ ~metadata.copySource /\ ~secure
          THEN req.auth = Signed("StreamingV4", location, req.Host)
               /\ req.sha256 = ""
          ELSE /\ req.auth = Signed("V4", location, req.Host)
               /\ req.sha256 = IF metadata.contentSHA256Hex = ""
                               THEN "UNSIGNED-PAYLOAD"
                               ELSE metadata.contentSHA256Hex
    /\ (pc = "locdo" /\ via = 1) =>
          req.auth.signer = IF ProviderAnonymous THEN "none"
                            ELSE IF V2InEffect THEN "V2" ELSE "V4"
    /\ (ev.type = "redirect" /\ ev.viaLen < 5 /\ ev.last.auth # NoAuth
           /\ ev.new.Host # ev.last.Host) =>
          /\ ~ProviderAnonymous
          /\ (ev.err # NoErr) = V2InEffect
          /\ ev.err = NoErr => ev.out.auth.signer = "V4"

C15_Witness ==
    /\ op = "exec"
    /\ pc = "do"
    /\ via = 1
    /\ credsType = "V2"
    /\ overrideSignerType = "V4"
    /\ metadata.method = "PUT"
    /\ metadata.objectName = "key.bin"
    /\ metadata.copySource
    /\ ~secure
    /\ metadata.contentSHA256Hex = ""
    /\ req.auth.signer = "V4"
    /\ req.sha256 = "UNSIGNED-PAYLOAD"

\* The answer taken in this step is a region mismatch that carries a region.
MismatchAnswered ==
    /\ pc = "do"
    /\ ev'.type = "response"
    /\ ev'.resp.status \notin {200, 204, 206}
    /\ ev'.resp.bodyOK
    /\ ev'.resp.code \in {"AuthorizationHeaderMalformed", "InvalidRegion"}
    /\ ev'.resp.region # ""

\* C16: with no override and no fixed region, a region mismatch answer that
\* carries a region, for a bucket with a cache entry, replaces the entry by
\* that region and leads to the retry timer without counting an attempt by
\* itself; the timer hands out no attempt beyond the budget; and the request
\* of the attempt that follows is built for the corrected region, and signed
\* for it when it is signed V4.
C16_RegionCorrectionRetries ==
    /\ [][ /\ (MismatchAnswered /\ metadata.bucketLocation = "" /\ region = ""
                 /\ metadata.bucketName # ""
                 /\ bucketLocCache[metadata.bucketName] # NoEntry) =>
                 /\ bucketLocCache'[metadata.bucketName] = ev'.resp.region
                 /\ \A b \in CacheKeys \ {metadata.bucketName} :
                       bucketLocCache'[b] = bucketLocCache[b]
                 /\ pc' = "timer"
                 /\ attempt' = attempt
           /\ (pc = "timer" /\ attempt >= reqRetry) =>
                 pc' \in {"timer", "done"} /\ attempt' = attempt
           /\ attempt' <= reqRetry' ]_vars
    /\ [](( /\ op = "exec" /\ pc = "do" /\ via = 1
            /\ res.code \in {"AuthorizationHeaderMalformed", "InvalidRegion"}
            /\ res.region # ""
            /\ metadata.bucketLocation = "" /\ region = ""
            /\ metadata.bucketName # "") =>
              /\ attempt > 1
              /\ location = res.region
              /\ bucketLocCache[metadata.bucketName] = res.region
              /\ req.auth.signer \in {"V4", "StreamingV4"} =>
                    req.auth.region = res.region)

C16_Witness ==
    /\ op = "exec"
    /\ pc = "do"
    /\ via = 1
    /\ attempt = 2
    /\ res.code = "AuthorizationHeaderMalformed"
    /\ res.region = "eu-west-1"
    /\ firstLoc["bkt"].region = "us-east-1"
    /\ bucketLocCache["bkt"] = "eu-west-1"
    /\ req.auth.signer = "V4"
    /\ req.auth.region = "eu-west-1"

\* An answer with a non-success status that does not correct the region is
\* the step under way.
ErrorAnswered ==
    /\ pc = "do"
    /\ ev'.type = "response"
    /\ ~IsSuccessStatus(ev'.resp.status)
    /\ ~ev'.corrected

\* The response executeMethod holds after lines 1049-1066 for the answer resp.
SavedResponse(resp) ==
    [status |-> resp.status, code |-> resp.code, region |-> resp.region,
     drained |-> TRUE, bodyAt |-> "start"]

AttemptBudget ==
    IF metadata.contentBody \in {"stream", "stdin"} THEN 1 ELSE MaxRetry

\* C18: a call never makes more attempts than its budget, 1 for a body that
\* cannot be seeked and MaxRetry otherwise, and it ends, whatever the server
\* answers: transport errors, retryable statuses, retryable construction
\* failures and region corrections all take the next attempt from the timer.
C18_TerminatesWithinBudget ==
    /\ [](op = "exec" => reqRetry = AttemptBudget /\ attempt <= reqRetry)
    /\ (op = "exec") ~> (pc = "done")

C18_Witness ==
    /\ op = "exec"
    /\ pc = "done"
    /\ metadata.contentBody = "seeker"
    /\ attempt = MaxRetry
    /\ ev.type = "exhausted"
    /\ res.code = "InvalidRegion"
    /\ res.region = "eu-west-1"
    /\ bucketLocCache[metadata.bucketName] = "eu-west-1"

\* The writes to the entry of bucket b, in the order they were made.
WritesTo(b) == SelectSeq(writes, LAMBDA w : w.bucketName = b)

\* Caller p has resolved the region of its bucket over the network.
ResolvedItself(p) ==
    /\ calls[p].pc \in {"set", "setLocked", "setWritten", "done"}
    /\ calls[p].err = NoErr
    /\ calls[p].resp # NoLocResp

\* C19: with two getBucketLocation calls at once, a call that missed returns
\* the region it made of its own answer, and a call that hit returns a region
\* that was written; the items are read only with the read lock held and
\* written only with the write lock held, which no one shares; and once both
\* calls have ended, an entry is absent only if nobody wrote it, and otherwise
\* holds what the last writer wrote, a region one of the calls resolved.
C19_ConcurrentResolutions ==
    /\ [](\A p \in Callers :
            /\ (calls[p].pc = "done" /\ ResolvedItself(p)) =>
                  calls[p].ret = processBucketLocationResponse(calls[p].resp).location
            /\ (calls[p].pc = "done" /\ calls[p].ok) =>
                  \E i \in 1..Len(writes) :
                     /\ writes[i].bucketName = calls[p].bucketName
                     /\ writes[i].location = calls[p].ret
            /\ calls[p].pc \in {"getLocked", "getRead"} =>
                  p \in mu.readers /\ mu.writer = "none"
            /\ calls[p].pc \in {"setLocked", "setWritten"} =>
                  mu.writer = p /\ mu.readers = {})
    /\ [][ bucketLocCache' # bucketLocCache =>
             \E p \in Callers : calls[p].pc = "setLocked" /\ mu.writer = p ]_vars
    /\ []((\A p \in Callers : calls[p].pc = "done") =>
            \A b \in CacheKeys :
               LET ws == WritesTo(b)
               IN  IF ws = << >> THEN bucketLocCache[b] = NoEntry
                   ELSE /\ bucketLocCache[b] = ws[Len(ws)].location
                        /\ bucketLocCache[b] # NoEntry
                        /\ \E p \in Callers :
                              /\ ResolvedItself(p)
                              /\ calls[p].bucketName = b
                              /\ bucketLocCache[b] =
                                    processBucketLocationResponse(calls[p].resp).location)

C19_Witness ==
    /\ \A p \in Callers : calls[p].pc = "done" /\ calls[p].bucketName = "bkt"
                          /\ ~calls[p].ok /\ calls[p].err = NoErr
    /\ calls["A"].ret = "us-west-2"
    /\ calls["B"].ret = "eu-west-1"
    /\ Len(writes) = 2
    /\ writes[1].by = "B"
    /\ writes[2].by = "A"
    /\ bucketLocCache["bkt"] = "us-west-2"

\* The hook of caller q has copied the field into the endpoint URL.
HookCopied(q, field) == field \in calls[q].wrote

\* Caller p has sent a request and its hook has not been called.
SentWithoutRedirect(p) ==
    /\ calls[p].pc \in {"do", "done"}
    /\ calls[p].via = 1
    /\ calls[p].toHost = ""
    /\ calls[p].wrote = {}

\* C20: the hook copies the URL of its redirect into the client's endpoint URL
\* with no lock held, newRequest reads host and scheme with no lock held, as
\* they are by then; so a caller that follows no redirect builds its request
\* for the endpoint as its call found it or for what the hook of another
\* caller has copied, each of host and scheme on its own.
C20_EndpointRace ==
    /\ [][ /\ (endpointURL' # endpointURL \/ endpointScheme' # endpointScheme) =>
                 /\ \E p \in Callers : calls[p].pc = "hook"
                 /\ mu = Unlocked
                 /\ mu' = Unlocked
           /\ \A p \in Callers :
                 /\ (~HookCopied(p, "Host") /\ HookCopied(p, "Host")') =>
                       endpointURL' = calls[p].toHost
                 /\ (~HookCopied(p, "Scheme") /\ HookCopied(p, "Scheme")') =>
                       endpointScheme' = calls[p].toScheme
                 /\ (calls[p].pc = "build" /\ calls'[p].pc = "do") =>
                       /\ calls'[p].host = endpointURL
                       /\ calls'[p].scheme = endpointScheme
                       /\ mu = Unlocked ]_vars
    /\ [](\A p \in Callers : SentWithoutRedirect(p) =>
            /\ calls[p].host \in
                  {calls[p].entryHost}
                  \cup {calls[q].toHost : q \in {c \in Callers \ {p} : HookCopied(c, "Host")}}
            /\ calls[p].scheme \in
                  {calls[p].entryScheme}
                  \cup {calls[q].toScheme :
                          q \in {c \in Callers \ {p} : HookCopied(c, "Scheme")}})

\* Both callers found the configured endpoint, http://storage.googleapis.com;
\* A was redirected to https://play.min.io, and B, which was not redirected,
\* has sent its request there.
C20_Witness ==
    /\ \A p \in Callers : /\ calls[p].entryHost = "storage.googleapis.com"
                          /\ calls[p].entryScheme = "http"
    /\ calls["A"].pc = "do"
    /\ calls["A"].via = 2
    /\ calls["A"].toHost = "play.min.io"
    /\ calls["A"].toScheme = "https"
    /\ SentWithoutRedirect("B")
    /\ calls["B"].pc = "do"
    /\ calls["B"].host = "play.min.io"
    /\ calls["B"].scheme = "https"
    /\ calls["B"].req.url = "play.min.io"

\* The step under way is the write of getBucketLocation, line 588, to the
\* entry of bucket b, which the call had missed.
WrittenAfterMiss(b) ==
    /\ ev'.type = "locResponse"
    /\ ev'.bucket = b
    /\ ev'.err = NoErr
    /\ bucketLocCache[b] = NoEntry
    /\ bucketLocCache'[b] = ev'.location

\* The step under way is the region correction of executeMethod, line 1079,
\* on the entry of bucket b.
WrittenByCorrection(b) ==
    /\ op = "exec"
    /\ ev'.type = "response"
    /\ ev'.corrected
    /\ metadata.bucketName = b
    /\ bucketLocCache'[b] = ev'.resp.region

\* An entry stays, and changes by one of the two writes only; hits, failed
\* resolutions and successful attempts change nothing.
EntriesKept ==
    /\ \A b \in CacheKeys :
          /\ bucketLocCache[b] # NoEntry => bucketLocCache'[b] # NoEntry
          /\ bucketLocCache'[b] # bucketLocCache[b] =>
                WrittenAfterMiss(b) \/ WrittenByCorrection(b)
    /\ (ev'.type = "newRequest" /\ ev'.src = "cache") =>
          bucketLocCache' = bucketLocCache
    /\ (ev'.type = "locResponse" /\ ev'.err # NoErr) =>
          bucketLocCache' = bucketLocCache
    /\ ev'.type = "locError" => bucketLocCache' = bucketLocCache
    /\ (ev'.type = "response" /\ IsSuccessStatus(ev'.resp.status)) =>
          bucketLocCache' = bucketLocCache

LocationRequestFails ==
    /\ pc = "locdo"
    /\ \/ ev'.type = "locError"
       \/ ev'.type = "redirect" /\ ev'.err # NoErr
       \/ /\ ev'.type = "locResponse"
          /\ ev'.resp.status # 200
          /\ ev'.resp.code \notin RegionHintCodes

\* The error getBucketLocation returns for the failure under way.
LocationFailure ==
    IF ev'.type = "locError" THEN PlainError(ev'.kind)
    ELSE IF ev'.type = "redirect" THEN ev'.err
    ELSE S3Error(ev'.resp.code)

\* C22: when the bucket location request fails in the transport, or is
\* answered by a non-success status with a code that is no region hint,
\* newRequest returns that error and no request, nothing is built or signed
\* or sent for the operation on that attempt, and the cache keeps no entry for
\* the bucket; a resolution for a bucket with no entry goes to the network.
C22_LocationFailurePropagates ==
    /\ [][ LocationRequestFails =>
             /\ err' = LocationFailure
             /\ req' = NoReq
             /\ location' = ""
             /\ pc' \in {"timer", "done"}
             /\ bucketLocCache' = bucketLocCache
             /\ bucketLocCache'[metadata.bucketName] = NoEntry ]_vars
    /\ []((ev.type = "newRequest" /\ metadata.bucketLocation = "" /\ region = ""
             /\ CheckValidBucketName(metadata.bucketName)
             /\ bucketLocCache[metadata.bucketName] = NoEntry) =>
               ev.src = "network")

C22_Witness ==
    /\ op = "exec"
    /\ pc = "locdo"
    /\ attempt = 2
    /\ err = S3Error("InternalError")
    /\ ev.type = "newRequest"
    /\ ev.src = "network"
    /\ ev.sent
    /\ bucketLocCache["bkt"] = NoEntry

\* C23: a bucket location answer with a 2xx status is a success: its body is
\* decoded as the location constraint and normalized, and the result is stored
\* for the bucket.
C23_Any2xxIsLocation ==
    (ev.type = "locResponse" /\ ev.resp.status >= 200 /\ ev.resp.status <= 299
        /\ ev.resp.xmlOK) =>
       /\ ev.err = NoErr
       /\ ev.location = NormalizeLocation(ev.resp.lc)
       /\ bucketLocCache[ev.bucket] = ev.location

\* The step under way ends newRequest with a failure, in executeMethod.
ConstructionFails ==
    /\ op = "exec"
    /\ pc \in {"build", "locdo"}
    /\ pc' \in {"timer", "done"}

\* C24: when newRequest fails, the loop takes another attempt from the timer
\* exactly when the failure is an S3 error with a retryable code; every other
\* failure ends the call on that attempt with the error and no response. No
\* request for the operation is sent on the attempt either way, and nothing
\* but the return to the caller follows the end of the call.
C24_ConstructionFailure ==
    [][ /\ ConstructionFails =>
              /\ err' # NoErr
              /\ req' = NoReq
              /\ attempt' = attempt
              /\ pc' = "timer" <=> (err'.kind = "s3" /\ isS3CodeRetryable(err'.code))
              /\ pc' = "done" => res' = NoRes
        /\ (op = "exec" /\ pc \in {"build", "locdo"} /\ pc' = "do") =>
              err' = NoErr /\ req' # NoReq
        /\ (op = "exec" /\ pc = "done") =>
              \/ pc' = "idle"
              \/ pc' = "done" /\ attempt' = attempt /\ req' = req ]_vars

C24_Witness ==
    /\ op = "exec"
    /\ pc = "done"
    /\ attempt = 2
    /\ ev.type = "locResponse"
    /\ ev.err = NoErr
    /\ s3AccelerateEndpoint # ""
    /\ metadata.bucketName = "my.bkt"
    /\ err = S3Error("InvalidArgument")
    /\ res = NoRes
    /\ req = NoReq

\* The request of the call in progress has been built.
BuiltForOperation == op = "exec" /\ pc = "do" /\ via = 1 /\ err = NoErr

\* The metadata is that of a bucket creation: lines 791.
IsMakeBucket ==
    /\ metadata.objectName = ""
    /\ metadata.method = "PUT"
    /\ metadata.queryValues = NoQuery

\* The URL of the request carries the bucket in its path.
PathStyle ==
    /\ req.path = "/" \o metadata.bucketName \o "/" \o metadata.objectName
    /\ req.url \in {endpointURL, getS3Endpoint(location), s3AccelerateEndpoint}

\* The URL of the request carries the bucket in its host.
VirtualHostStyle ==
    /\ req.path = "/" \o metadata.objectName
    /\ req.url \in { metadata.bucketName \o "." \o h :
                       h \in {endpointURL, getS3Endpoint(location),
                              s3AccelerateEndpoint} }

\* C25: the request of a bucket creation is path-style whatever the lookup
\* style of the client; any other request with a bucket name is
\* virtual-host style on a client configured for DNS and path-style on a
\* client configured for Path; and with no bucket name the decision is never
\* virtual-host style and the URL is that of the host alone.
C25_AddressingStyle ==
    /\ ~isVirtualHostStyleRequest(endpointURL, "")
    /\ (BuiltForOperation /\ metadata.bucketName = "") =>
          /\ req.path = "/"
          /\ req.url \in {endpointURL, getS3Endpoint(location)}
    /\ (BuiltForOperation /\ metadata.bucketName # "") =>
          /\ IsMakeBucket => PathStyle
          /\ (~IsMakeBucket /\ lookup = "DNS") => VirtualHostStyle
          /\ (~IsMakeBucket /\ lookup = "Path") => PathStyle

C25_Witness ==
    /\ BuiltForOperation
    /\ lookup = "DNS"
    /\ endpointURL = "play.min.io"
    /\ IsMakeBucket
    /\ metadata.bucketName = "bkt"
    /\ req.url = "play.min.io"
    /\ req.path = "/bkt/"

\* The region correction condition of lines 1074-1077 is evaluated in this
\* step with every conjunct but the cache lookup satisfied.
CorrectionEvaluated ==
    /\ MismatchAnswered
    /\ metadata.bucketLocation = ""
    /\ region = ""
    /\ metadata.bucketName # ""

\* C26: whenever the region correction condition is evaluated with no
\* override, no fixed region, a bucket name and a region mismatch answer
\* carrying a region, the cache holds an entry for the bucket, so the
\* correction applies: the entry becomes the region of the answer and the
\* loop continues at the retry timer.
C26_EntryPresentAtCorrection ==
    [][ CorrectionEvaluated =>
          /\ bucketLocCache[metadata.bucketName] # NoEntry
          /\ RegionCorrection(ev'.resp)
          /\ bucketLocCache'[metadata.bucketName] = ev'.resp.region
          /\ pc' = "timer" ]_vars

C26_Witness ==
    /\ op = "exec"
    /\ pc = "timer"
    /\ attempt = 1
    /\ ev.type = "response"
    /\ ev.resp.code = "InvalidRegion"
    /\ ev.resp.region = "eu-west-1"
    /\ metadata.bucketLocation = ""
    /\ region = ""
    /\ firstLoc["bkt"].region = "us-west-2"
    /\ bucketLocCache["bkt"] = "eu-west-1"

\* executeMethod returns in this step.
ExecuteMethodReturns == op = "exec" /\ pc # "done" /\ pc' = "done"

\* C27: what executeMethod returns comes from the attempt performed last.
\* An error is returned with no response and a response with no error; an
\* answer with a non-success status that ends the loop is the response
\* returned; a failed transport call leaves no response behind; an attempt
\* that fails before its transport call and is retried has no response of an
\* earlier attempt behind it; and when the budget ends the loop the result is
\* the one the last attempt left.
C27_ResultOfLastAttempt ==
    [][ /\ ExecuteMethodReturns =>
             /\ err' # NoErr => res' = NoRes
             /\ res' # NoRes => err' = NoErr
        /\ (ExecuteMethodReturns /\ ev'.type = "response" /\ ev'.resp.bodyOK) =>
             /\ ev'.n = attempt
             /\ res'.status = ev'.resp.status
             /\ res'.code = ev'.resp.code
             /\ err' = NoErr
        /\ (op = "exec" /\ ev'.type = "transportError") =>
             res' = NoRes /\ err' # NoErr
        /\ (op = "exec" /\ pc \in {"build", "locdo"} /\ pc' = "timer") =>
             res = NoRes /\ res' = NoRes /\ err' # NoErr
        /\ (ExecuteMethodReturns /\ ev'.type = "exhausted") =>
             /\ res' = res
             /\ err' = err ]_vars

C27_Witness ==
    /\ op = "exec"
    /\ pc = "done"
    /\ ev.type = "exhausted"
    /\ attempt = reqRetry
    /\ attempt > 1
    /\ res.status = 503
    /\ err = NoErr

\* The step takes an answer or a transport error that the loop retries.
RetryableOutcome ==
    /\ pc = "do"
    /\ \/ ev'.type = "transportError" /\ isHTTPReqErrorRetryable(err')
       \/ /\ ev'.type = "response"
          /\ ~IsSuccessStatus(ev'.resp.status)
          /\ ev'.resp.bodyOK
          /\ ErrorRetryable(ev'.resp)

\* C28: a call with no body has the whole budget and never seeks: a
\* retryable outcome takes it back to the retry timer, and the timer hands
\* out the next attempt, up to MaxRetry, with no seek before it. The budget is
\* 1 exactly for a body that is present and cannot be seeked.
C28_NoBodyKeepsBudget ==
    /\ [](op = "exec" =>
            /\ metadata.contentBody = "nil" =>
                  reqRetry = MaxRetry /\ ~isRetryable /\ seeks = 0
            /\ (reqRetry = 1 /\ MaxRetry > 1) =>
                  metadata.contentBody \in {"stream", "stdin"}
            /\ metadata.contentBody \in {"stream", "stdin"} => reqRetry = 1)
    /\ [][ (op = "exec" /\ metadata.contentBody = "nil") =>
             /\ RetryableOutcome => pc' = "timer" /\ attempt' = attempt
             /\ (pc = "timer" /\ attempt < MaxRetry) =>
                   /\ pc' \in {"timer", "build"}
                   /\ pc' = "build" => attempt' = attempt + 1 /\ seeks' = 0 ]_vars

C28_Witness ==
    /\ op = "exec"
    /\ metadata.contentBody = "nil"
    /\ pc = "do"
    /\ attempt = 2
    /\ seeks = 0
    /\ res.status = 503
    /\ err = NoErr

\* The hook is called in this step on a redirect that passes the hop limit.
HookPastHopLimit ==
    /\ pc \in {"locdo", "do"}
    /\ ev'.type = "redirect"
    /\ ev'.viaLen \in 1..4

\* C29: a call of the hook on a redirect that passes the hop limit leaves the
\* endpoint URL at the target of the redirect, whether the host changed or
\* not and whether the hook returns an error (no credentials, a V2 signer on
\* a changed host) or not; and nothing else changes the endpoint URL.
C29_EndpointFollowsRedirect ==
    [][ /\ HookPastHopLimit => endpointURL' = ev'.new.url
        /\ (HookPastHopLimit /\ ev'.err # NoErr) =>
              /\ ev'.err \in {PlainError("credentials"), PlainError("redirectV2")}
              /\ endpointURL' = ev'.new.url
              /\ pc' \in {"timer", "done"}
        /\ endpointURL' # endpointURL => HookPastHopLimit ]_vars

C29_Witness ==
    /\ ev.type = "redirect"
    /\ ev.viaLen = 1
    /\ ev.err = PlainError("credentials")
    /\ ev.last.url = "play.min.io"
    /\ ev.new.url = "s3.amazonaws.com"
    /\ endpointURL = "s3.amazonaws.com"
    /\ pc = "done"

====
